---- MODULE Spec2Model ----
(***************************************************************************)
(* Persistence layer of academic-resources: the project collection         *)
(* (lib/projects-server) and the file-metadata collection with its blob    *)
(* content (lib/files), each choosing between a remote key-value / blob    *)
(* backend and the local filesystem from process.env on every call.        *)
(***************************************************************************)
EXTENDS Integers, Sequences, FiniteSets, TLC

VARIABLES
    env,      \* process.env: the variables the two modules read
    kv,       \* remote key-value store: key -> [present, val]
    disk,     \* local data directory: [dir, projects, files]
    blobs,    \* remote blob store: url -> content ("" = no object)
    uploads,  \* local uploads tree: file path -> content ("" = no file)
    now,      \* the clock (Date.now(), milliseconds)
    last,     \* the call completed since the environment last changed: what it
              \* returned and the I/O it did (NoCall when there is none)
    calls,    \* the requests in flight: request -> the mutating call it is in,
              \* suspended between its collection read and its collection write
    cookieStore  \* the admin_session cookie of one client: [value, expires]

vars == <<env, kv, disk, blobs, uploads, now, last, calls, cookieStore>>

(***************************************************************************)
(* Bounds                                                                  *)
(***************************************************************************)
MaxLen == 2      \* longest collection a mutating call may extend
MaxClock == 2    \* last clock reading

\* maxAge of the admin_session cookie (30 days in the source), in clock ticks.
MaxAge == 1

(***************************************************************************)
(* process.env                                                             *)
(***************************************************************************)
Unset == ""
Truthy(x) == x # ""

EnvSpace ==
    [VERCEL : {Unset, "1", "true"},
     VERCEL_ENV : {Unset, "production"},
     KV_REST_API_URL : {Unset, "kv-url"},
     KV_REST_API_TOKEN : {Unset, "kv-token"},
     UPSTASH_REDIS_REST_URL : {Unset, "upstash-url"},
     UPSTASH_REDIS_REST_TOKEN : {Unset, "upstash-token"},
     BLOB_READ_WRITE_TOKEN : {Unset, "blob-token"}]

EnvNames ==
    {"VERCEL", "VERCEL_ENV", "KV_REST_API_URL", "KV_REST_API_TOKEN",
     "UPSTASH_REDIS_REST_URL", "UPSTASH_REDIS_REST_TOKEN", "BLOB_READ_WRITE_TOKEN"}

EnvValues(n) == {s[n] : s \in EnvSpace}

PROJECTS_KEY == "projects"
FILES_KEY == "files"

(***************************************************************************)
(* Records                                                                 *)
(***************************************************************************)
Undefined == "undefined"

Names == {"Thesis", "Thesis v2"}
Descriptions == {Undefined, "notes"}

\* A client that holds no admin_session cookie.
NoCookie == [value |-> Undefined, expires |-> 0]

\* The I/O of a call: remote key-value requests sent, those of them that failed,
\* calls of the local-file functions (getAll...Local, save...Local), reads and
\* writes of the local data directory, remote blob requests sent.
NoIO == [remote |-> 0, failed |-> 0, local |-> 0, lread |-> 0, lwrite |-> 0, blob |-> 0]

\* What a collection read or write hands back to the repository function.
\* outcome: "ok", or the error thrown; backend: the store that served the call.
StoreResult(outcome, value, k, d, backend, fellBack, io) ==
    [outcome |-> outcome, value |-> value, kv |-> k, disk |-> d,
     backend |-> backend, fellBack |-> fellBack, io |-> io]

(***************************************************************************)
(* lib/projects-server: environment detection                              *)
(***************************************************************************)
isVercelPlatform(e) == e.VERCEL = "1" \/ Truthy(e.VERCEL_ENV)

hasRedisConfig(e) == Truthy(e.UPSTASH_REDIS_REST_URL) \/ Truthy(e.KV_REST_API_URL)

\* Mutant of shouldUseRedis: a fallback is remembered and the next call stays local.
shouldUseRedisSticky(e) ==
    IF last.fellBack THEN FALSE
    ELSE IF isVercelPlatform(e) THEN TRUE ELSE hasRedisConfig(e)

shouldUseRedis(e) == IF isVercelPlatform(e) THEN TRUE ELSE hasRedisConfig(e)

NoConfig == [url |-> Unset, token |-> Unset]

\* Mutant of getRedisConfig: the configuration of the first connection is kept.
getRedisConfigCached(e) ==
    IF kv.projects.present
    THEN [url |-> "kv-url", token |-> "kv-token"]
    ELSE IF Truthy(e.KV_REST_API_URL) /\ Truthy(e.KV_REST_API_TOKEN)
         THEN [url |-> e.KV_REST_API_URL, token |-> e.KV_REST_API_TOKEN]
         ELSE IF Truthy(e.UPSTASH_REDIS_REST_URL) /\ Truthy(e.UPSTASH_REDIS_REST_TOKEN)
              THEN [url |-> e.UPSTASH_REDIS_REST_URL,
                    token |-> e.UPSTASH_REDIS_REST_TOKEN]
              ELSE NoConfig

getRedisConfig(e) ==
    IF Truthy(e.KV_REST_API_URL) /\ Truthy(e.KV_REST_API_TOKEN)
    THEN [url |-> e.KV_REST_API_URL, token |-> e.KV_REST_API_TOKEN]
    ELSE IF Truthy(e.UPSTASH_REDIS_REST_URL) /\ Truthy(e.UPSTASH_REDIS_REST_TOKEN)
         THEN [url |-> e.UPSTASH_REDIS_REST_URL, token |-> e.UPSTASH_REDIS_REST_TOKEN]
         ELSE NoConfig

(***************************************************************************)
(* The remote key-value service (@upstash/redis over REST)                 *)
(***************************************************************************)
\* A request is answered when the service is reachable (up) and the client sent
\* a token with it.
RedisAnswers(up, token) == up /\ Truthy(token)

(***************************************************************************)
(* JSON documents                                                          *)
(***************************************************************************)
\* An object is a function from its own property names to their values.
\* Reading a property the object does not have yields undefined.
Get(o, f) == IF f \in DOMAIN o THEN o[f] ELSE Undefined

\* JSON.stringify leaves out the properties whose value is undefined.
\* Mutant of serialize: the optional properties are left out, set or not.
serializeRequired(o) ==
    [f \in {g \in DOMAIN o : g \notin {"description", "blobUrl"}} |-> o[f]]

serialize(o) == [f \in {g \in DOMAIN o : o[g] # Undefined} |-> o[f]]

Absent == [state |-> "absent", val |-> <<>>]

\* The document written for an array of objects ("json": a complete text).
JSONstringify(records) ==
    [state |-> "json", val |-> [i \in 1..Len(records) |-> serialize(records[i])]]

\* JSON.parse throws on a document that is not JSON.
JSONparses(file) == file.state = "json"
JSONparse(file) == file.val

\* redis.get(key) || []: the value is stored as JSON text and parsed on the way
\* back; an absent key reads as null.
redisGet(k, key) == IF k[key].present THEN JSONparse(k[key]) ELSE <<>>

\* redis.set(key, val): the client serialises the value with JSON.stringify.
\* Mutant of redisSet: the records the key holds and the new value lacks are
\* kept behind it (a merge).
redisSetMerge(k, key, val) ==
    LET new == JSONstringify(val).val
        old == IF k[key].present THEN k[key].val ELSE <<>>
    IN [k EXCEPT ![key] =
          [present |-> TRUE, state |-> "json",
           val |-> new \o SelectSeq(old, LAMBDA o : \A i \in 1..Len(new) : new[i] # o)]]

redisSet(k, key, val) ==
    [k EXCEPT ![key] = [present |-> TRUE, state |-> "json",
                        val |-> JSONstringify(val).val]]

(***************************************************************************)
(* lib/projects-server: local storage                                      *)
(***************************************************************************)
\* The disk after ensureDataDir, and the number of writes it made.
\* Mutant of ensureDataDir: the empty document is written whether or not the
\* file exists.
ensureDataDirAlways(d) ==
    [disk |-> [d EXCEPT !.dir = TRUE, !.projects = JSONstringify(<<>>)],
     lwrite |-> (IF d.dir THEN 0 ELSE 1) + 1]

ensureDataDir(d) ==
    [disk |-> [d EXCEPT !.dir = TRUE,
                        !.projects = IF @.state = "absent" THEN JSONstringify(<<>>) ELSE @],
     lwrite |-> (IF d.dir THEN 0 ELSE 1) + (IF d.projects.state = "absent" THEN 1 ELSE 0)]

\* Mutant of getAllProjectsLocal: a missing file is an error (no ensureDataDir,
\* no catch).
getAllProjectsLocalThrows(k, d, fellBack, io) ==
    IF d.projects.state = "absent"
    THEN StoreResult("ENOENT", <<>>, k, d, "local", fellBack,
                     [io EXCEPT !.local = @ + 1, !.lread = @ + 1])
    ELSE StoreResult("ok",
                     IF JSONparses(d.projects) THEN JSONparse(d.projects) ELSE <<>>,
                     k, d, "local", fellBack, [io EXCEPT !.local = @ + 1, !.lread = @ + 1])

\* Mutant of getAllProjectsLocal: the error of JSON.parse is not caught.
getAllProjectsLocalStrict(k, d, fellBack, io) ==
    LET e == ensureDataDir(d)
        data == e.disk.projects
    IN StoreResult(IF JSONparses(data) THEN "ok" ELSE "SyntaxError",
                   IF JSONparses(data) THEN JSONparse(data) ELSE <<>>,
                   k, e.disk, "local", fellBack,
                   [io EXCEPT !.local = @ + 1, !.lread = @ + 1, !.lwrite = @ + e.lwrite])

getAllProjectsLocal(k, d, fellBack, io) ==
    LET e == ensureDataDir(d)
        data == e.disk.projects
    IN StoreResult("ok",
                   IF JSONparses(data) THEN JSONparse(data) ELSE <<>>,
                   k, e.disk, "local", fellBack,
                   [io EXCEPT !.local = @ + 1, !.lread = @ + 1, !.lwrite = @ + e.lwrite])

\* A file that exists and that the process can neither read nor write
\* (fs.readFileSync and fs.writeFileSync throw EACCES); val is what it holds.
Denied(file) == [state |-> "denied", val |-> file.val]

saveProjectsLocal(projects, k, d, fellBack, io) ==
    LET e == ensureDataDir(d)
    IN IF e.disk.projects.state = "denied"
       THEN StoreResult("EACCES", <<>>, k, e.disk, "local", fellBack,
                        [io EXCEPT !.local = @ + 1, !.lwrite = @ + e.lwrite + 1])
       ELSE StoreResult("ok", <<>>, k,
                        [e.disk EXCEPT !.projects = JSONstringify(projects)],
                        "local", fellBack,
                        [io EXCEPT !.local = @ + 1, !.lwrite = @ + e.lwrite + 1])

(***************************************************************************)
(* lib/projects-server: the collection store                               *)
(***************************************************************************)
\* Mutant of getAllProjectsCatch: the catch block falls back wherever it runs.
getAllProjectsCatchLocal(error, e, k, d, io) ==
    getAllProjectsLocal(k, d, TRUE, io)

\* Mutant of getAllProjectsCatch: the catch block rethrows wherever it runs.
getAllProjectsCatchThrow(error, e, k, d, io) ==
    StoreResult(error, <<>>, k, d, "none", FALSE, io)

\* The catch block of getAllProjectsFromKV: rethrow on Vercel, else local.
getAllProjectsCatch(error, e, k, d, io) ==
    IF isVercelPlatform(e)
    THEN StoreResult(error, <<>>, k, d, "none", FALSE, io)
    ELSE getAllProjectsLocal(k, d, TRUE, io)

getAllProjectsFromKV(e, up, k, d) ==
    IF ~shouldUseRedis(e)
    THEN getAllProjectsLocal(k, d, FALSE, NoIO)
    ELSE LET redisConfig == getRedisConfig(e)
         IN IF redisConfig = NoConfig
            THEN IF isVercelPlatform(e)
                 THEN getAllProjectsCatch("ConfigurationMissing", e, k, d, NoIO)
                 ELSE getAllProjectsLocal(k, d, FALSE, NoIO)
            ELSE IF RedisAnswers(up, redisConfig.token)
                 THEN StoreResult("ok", redisGet(k, PROJECTS_KEY), k, d, "remote", FALSE,
                                  [NoIO EXCEPT !.remote = 1])
                 ELSE getAllProjectsCatch("RedisError", e, k, d,
                                          [NoIO EXCEPT !.remote = 1, !.failed = 1])

\* Mutant of saveProjectsCatch: the catch block falls back wherever it runs.
saveProjectsCatchLocal(error, projects, e, k, d, io) ==
    saveProjectsLocal(projects, k, d, TRUE, io)

\* Mutant of saveProjectsCatch: on the managed platform the error is logged
\* and not thrown again.
saveProjectsCatchSwallow(error, projects, e, k, d, io) ==
    IF isVercelPlatform(e)
    THEN StoreResult("ok", <<>>, k, d, "none", FALSE, io)
    ELSE saveProjectsLocal(projects, k, d, TRUE, io)

\* The catch block of saveProjectsToKV.
saveProjectsCatch(error, projects, e, k, d, io) ==
    IF isVercelPlatform(e)
    THEN StoreResult(error, <<>>, k, d, "none", FALSE, io)
    ELSE saveProjectsLocal(projects, k, d, TRUE, io)

saveProjectsToKV(projects, e, up, k, d, io) ==
    IF ~shouldUseRedis(e)
    THEN saveProjectsLocal(projects, k, d, FALSE, io)
    ELSE LET redisConfig == getRedisConfig(e)
         IN IF redisConfig = NoConfig
            THEN IF isVercelPlatform(e)
                 THEN saveProjectsCatch("ConfigurationMissing", projects, e, k, d, io)
                 ELSE LET saved == saveProjectsLocal(projects, k, d, FALSE, io)
                      IN IF saved.outcome = "ok" THEN saved
                         ELSE saveProjectsCatch(saved.outcome, projects, e,
                                                saved.kv, saved.disk, saved.io)
            ELSE IF RedisAnswers(up, redisConfig.token)
                 THEN StoreResult("ok", <<>>, redisSet(k, PROJECTS_KEY, projects), d,
                                  "remote", FALSE, [io EXCEPT !.remote = @ + 1])
                 ELSE saveProjectsCatch("RedisError", projects, e, k, d,
                                        [io EXCEPT !.remote = @ + 1, !.failed = @ + 1])

(***************************************************************************)
(* Clock and identifiers                                                   *)
(***************************************************************************)
\* Date.prototype.toISOString: fixed-width digits, most significant first.
toISOString(t) == <<t \div 10, t % 10>>

\* Date.now().toString()
NowId(t) == ToString(t)

Ids == {NowId(t) : t \in 1..MaxClock}

(***************************************************************************)
(* lib/projects-server: the repository                                     *)
(***************************************************************************)
Project(id, name, description, moduleName, supervisorName, createdAt, updatedAt) ==
    [id |-> id, name |-> name, description |-> description,
     moduleName |-> moduleName, supervisorName |-> supervisorName,
     createdAt |-> createdAt, updatedAt |-> updatedAt]

FieldValues(f) ==
    IF f = "name" THEN Names
    ELSE IF f = "description" THEN Descriptions
    ELSE {Undefined}

\* Partial<Pick<Project, 'name' | 'description' | 'moduleName' | 'supervisorName'>>
Updates ==
    {u \in UNION {[S -> Names \cup Descriptions] : S \in SUBSET {"name", "description"}} :
        \A f \in DOMAIN u : u[f] \in FieldValues(f)}

\* Mutant of findIndex: with no match the first record is taken.
findIndexOrFirst(projects, id) ==
    IF \E i \in 1..Len(projects) : projects[i].id = id
    THEN CHOOSE i \in 1..Len(projects) :
            /\ projects[i].id = id
            /\ \A j \in 1..(i - 1) : projects[j].id # id
    ELSE IF projects = <<>> THEN 0 ELSE 1

\* projects.findIndex(p => p.id === id); 0 when there is none
findIndex(projects, id) ==
    IF \E i \in 1..Len(projects) : projects[i].id = id
    THEN CHOOSE i \in 1..Len(projects) :
            /\ projects[i].id = id
            /\ \A j \in 1..(i - 1) : projects[j].id # id
    ELSE 0

\* Mutant of spread: the record is rebuilt from its id and the updates alone.
spreadFresh(existingProject, updates, updatedAt) ==
    [f \in {"id", "createdAt"} \cup DOMAIN updates \cup {"updatedAt"} |->
        IF f = "updatedAt" THEN updatedAt
        ELSE IF f \in DOMAIN updates THEN updates[f]
        ELSE existingProject[f]]

\* { ...existingProject, ...updates, updatedAt }
spread(existingProject, updates, updatedAt) ==
    [f \in DOMAIN existingProject \cup DOMAIN updates \cup {"updatedAt"} |->
        IF f = "updatedAt" THEN updatedAt
        ELSE IF f \in DOMAIN updates THEN updates[f]
        ELSE existingProject[f]]

\* No call has completed since the environment changed.
NoCall ==
    [op |-> "none", outcome |-> "ok", ret |-> "void", value |-> <<>>,
     readBackend |-> "none", writeBackend |-> "none", fellBack |-> FALSE,
     afterFallback |-> FALSE, io |-> NoIO, args |-> <<>>, previous |-> <<>>]

\* The arguments of the call before this one, when it was a successful call of
\* the same operation (else none).
Previous(op) == IF last.op = op /\ last.outcome = "ok" THEN last.args ELSE <<>>

\* The record of a completed call; afterFallback: the call before it fell back.
Call(op, outcome, ret, value, rd, wr, io) ==
    [op |-> op, outcome |-> outcome, ret |-> ret, value |-> value,
     readBackend |-> rd.backend, writeBackend |-> wr.backend,
     fellBack |-> rd.fellBack \/ wr.fellBack, afterFallback |-> last.fellBack,
     io |-> io, args |-> <<>>, previous |-> <<>>]

NoStore == [backend |-> "none", fellBack |-> FALSE]


Thrown(op, r, rd, wr) == Call(op, r.outcome, "error", <<>>, rd, wr, r.io)

\* In the actions below the result of a collection read or write is bound once
\* (\E r \in {...}) and used as that value from there on.
getAllProjects ==
    \E up \in BOOLEAN :
    \E r \in {getAllProjectsFromKV(env, up, kv, disk)} :
       /\ last' = IF r.outcome = "ok"
                  THEN Call("getAllProjects", "ok", "list", r.value, r, NoStore, r.io)
                  ELSE Thrown("getAllProjects", r, r, NoStore)
       /\ kv' = r.kv
       /\ disk' = r.disk
       /\ UNCHANGED <<env, blobs, uploads, now, calls, cookieStore>>

getProject(id) ==
    \E up \in BOOLEAN :
    \E r \in {getAllProjectsFromKV(env, up, kv, disk)} :
    \E i \in {findIndex(r.value, id)} :
       /\ last' = IF r.outcome # "ok" THEN Thrown("getProject", r, r, NoStore)
                  ELSE IF i = 0
                       THEN Call("getProject", "ok", "null", <<>>, r, NoStore, r.io)
                       ELSE Call("getProject", "ok", "record", <<r.value[i]>>, r, NoStore, r.io)
       /\ kv' = r.kv
       /\ disk' = r.disk
       /\ UNCHANGED <<env, blobs, uploads, now, calls, cookieStore>>

\* Mutant of createProjectCall: the new record is put in front (unshift).
createProjectCallUnshift(name, description, moduleName, supervisorName, t1, t2, t3, up1, up2) ==
    LET newProject == Project(NowId(t1), name, description, moduleName,
                              supervisorName, toISOString(t2), toISOString(t3))
        saved(r, w) ==
            IF r.outcome # "ok"
            THEN [enabled |-> TRUE, last |-> Thrown("createProject", r, r, NoStore),
                  kv |-> r.kv, disk |-> r.disk, now |-> now]
            ELSE [enabled |-> Len(r.value) < MaxLen,
                  last |-> IF w.outcome = "ok"
                           THEN Call("createProject", "ok", "record", <<newProject>>,
                                     r, w, w.io)
                           ELSE Thrown("createProject", w, r, w),
                  kv |-> w.kv, disk |-> w.disk, now |-> t3]
        read(r) ==
            saved(r, saveProjectsToKV(<<newProject>> \o r.value, env, up2,
                                      r.kv, r.disk, r.io))
    IN read(getAllProjectsFromKV(env, up1, kv, disk))

\* What createProject does when the clock reads t1, t2, t3 and the remote
\* requests are answered (up1, up2) or not: the record of the call and the
\* stores and the clock after it. enabled: the collection stays within MaxLen.
createProjectCall(name, description, moduleName, supervisorName, t1, t2, t3, up1, up2) ==
    LET newProject == Project(NowId(t1), name, description, moduleName,
                              supervisorName, toISOString(t2), toISOString(t3))
        saved(r, w) ==
            IF r.outcome # "ok"
            THEN [enabled |-> TRUE, last |-> Thrown("createProject", r, r, NoStore),
                  kv |-> r.kv, disk |-> r.disk, now |-> now]
            ELSE [enabled |-> Len(r.value) < MaxLen,
                  last |-> IF w.outcome = "ok"
                           THEN Call("createProject", "ok", "record", <<newProject>>,
                                     r, w, w.io)
                           ELSE Thrown("createProject", w, r, w),
                  kv |-> w.kv, disk |-> w.disk, now |-> t3]
        read(r) ==
            saved(r, saveProjectsToKV(Append(r.value, newProject), env, up2,
                                      r.kv, r.disk, r.io))
    IN read(getAllProjectsFromKV(env, up1, kv, disk))

createProject(name, description, moduleName, supervisorName) ==
    \E t1, t2, t3 \in now..MaxClock, up1, up2 \in BOOLEAN :
        /\ t1 <= t2 /\ t2 <= t3
        /\ \E c \in {createProjectCall(name, description, moduleName, supervisorName,
                                         t1, t2, t3, up1, up2)} :
              /\ c.enabled
              /\ last' = c.last
              /\ kv' = c.kv
              /\ disk' = c.disk
              /\ now' = c.now
        /\ UNCHANGED <<env, blobs, uploads, calls, cookieStore>>

updateProject(id, updates) ==
    \E t \in now..MaxClock, up1, up2 \in BOOLEAN :
        /\ \E r \in {getAllProjectsFromKV(env, up1, kv, disk)} :
           \E projectIndex \in {findIndex(r.value, id)} :
              IF r.outcome # "ok"
              THEN /\ last' = Thrown("updateProject", r, r, NoStore)
                   /\ kv' = r.kv
                   /\ disk' = r.disk
                   /\ now' = now
              ELSE IF projectIndex = 0
              THEN /\ last' = Call("updateProject", "ok", "null", <<>>, r, NoStore, r.io)
                   /\ kv' = r.kv
                   /\ disk' = r.disk
                   /\ now' = now
              ELSE \E projects \in {[r.value EXCEPT ![projectIndex] =
                                         spread(@, updates, toISOString(t))]} :
                   \E w \in {saveProjectsToKV(projects, env, up2, r.kv, r.disk, r.io)} :
                   /\ last' = IF w.outcome = "ok"
                              THEN Call("updateProject", "ok", "record",
                                        <<projects[projectIndex]>>, r, w, w.io)
                              ELSE Thrown("updateProject", w, r, w)
                   /\ kv' = w.kv
                   /\ disk' = w.disk
                   /\ now' = t
        /\ UNCHANGED <<env, blobs, uploads, calls, cookieStore>>

(***************************************************************************)
(* lib/files: environment detection and the collection store               *)
(***************************************************************************)
\* Mutant of isVercelEnvironment: the blob token alone decides.
isVercelEnvironmentBlobOnly(e) == Truthy(e.BLOB_READ_WRITE_TOKEN)

isVercelEnvironment(e) ==
    Truthy(e.BLOB_READ_WRITE_TOKEN) /\ Truthy(e.UPSTASH_REDIS_REST_URL)

\* The disk after ensureFilesDataFile, and the number of writes it made.
ensureFilesDataFile(d) ==
    [disk |-> [d EXCEPT !.dir = TRUE,
                        !.files = IF @.state = "absent" THEN JSONstringify(<<>>) ELSE @],
     lwrite |-> (IF d.dir THEN 0 ELSE 1) + (IF d.files.state = "absent" THEN 1 ELSE 0)]

getAllFilesLocal(k, d, fellBack, io) ==
    LET e == ensureFilesDataFile(d)
        data == e.disk.files
    IN StoreResult("ok",
                   IF JSONparses(data) THEN JSONparse(data) ELSE <<>>,
                   k, e.disk, "local", fellBack,
                   [io EXCEPT !.local = @ + 1, !.lread = @ + 1, !.lwrite = @ + e.lwrite])

saveFilesLocal(files, k, d, fellBack, io) ==
    LET e == ensureFilesDataFile(d)
    IN StoreResult("ok", <<>>, k,
                   [e.disk EXCEPT !.files = JSONstringify(files)],
                   "local", fellBack,
                   [io EXCEPT !.local = @ + 1, !.lwrite = @ + e.lwrite + 1])

getAllFilesFromKV(e, up, k, d) ==
    IF ~isVercelEnvironment(e)
    THEN getAllFilesLocal(k, d, FALSE, NoIO)
    ELSE IF Truthy(e.UPSTASH_REDIS_REST_URL)
         THEN IF RedisAnswers(up, e.UPSTASH_REDIS_REST_TOKEN)
              THEN StoreResult("ok", redisGet(k, FILES_KEY), k, d, "remote", FALSE,
                               [NoIO EXCEPT !.remote = 1])
              ELSE getAllFilesLocal(k, d, TRUE, [NoIO EXCEPT !.remote = 1, !.failed = 1])
         ELSE StoreResult("ok", <<>>, k, d, "none", FALSE, NoIO)

saveFilesToKV(files, e, up, k, d, io) ==
    IF ~isVercelEnvironment(e)
    THEN saveFilesLocal(files, k, d, FALSE, io)
    ELSE IF Truthy(e.UPSTASH_REDIS_REST_URL)
         THEN IF RedisAnswers(up, e.UPSTASH_REDIS_REST_TOKEN)
              THEN StoreResult("ok", <<>>, redisSet(k, FILES_KEY, files), d,
                               "remote", FALSE, [io EXCEPT !.remote = @ + 1])
              ELSE saveFilesLocal(files, k, d, TRUE,
                                  [io EXCEPT !.remote = @ + 1, !.failed = @ + 1])
         ELSE StoreResult("ok", <<>>, k, d, "none", FALSE, io)

(***************************************************************************)
(* lib/files: the repository and the blob content                          *)
(***************************************************************************)
UPLOADS_DIR == "uploads"

ProjectIds == {"p1"}
CategoryIds == {"c1"}
Filenames == {"f1", "f2"}
Buffers == {"bytes-1", "bytes-2"}

\* `${projectId}/${categoryId}/${filename}`
blobPath(projectId, categoryId, filename) ==
    projectId \o "/" \o categoryId \o "/" \o filename

\* path.join(UPLOADS_DIR, projectId, categoryId, filename)
getFilePath(projectId, categoryId, filename) ==
    UPLOADS_DIR \o "/" \o projectId \o "/" \o categoryId \o "/" \o filename

\* The url the blob service assigns to a path (addRandomSuffix: false).
blobUrlOf(path) == "https://blob.store/" \o path

BlobUrls ==
    {blobUrlOf(blobPath(p, c, f)) : p \in ProjectIds, c \in CategoryIds, f \in Filenames}

FilePaths ==
    {getFilePath(p, c, f) : p \in ProjectIds, c \in CategoryIds, f \in Filenames}

\* (size, a number, is carried as its decimal text)
FileMetadata(id, projectId, categoryId, filename, blobUrl) ==
    [id |-> id, projectId |-> projectId, categoryId |-> categoryId,
     filename |-> filename, originalName |-> "paper.pdf", size |-> "1",
     mimeType |-> "application/pdf", uploadedAt |-> toISOString(1),
     blobUrl |-> blobUrl]

\* The metadata a caller may hand to saveFileMetadata for the given file names.
MetadataOf(filenames) ==
    UNION {{FileMetadata("m1", p, c, f, Undefined),
            FileMetadata("m1", p, c, f, blobUrlOf(blobPath(p, c, f)))} :
           p \in ProjectIds, c \in CategoryIds, f \in filenames}

SameFile(f, projectId, categoryId, filename) ==
    f.projectId = projectId /\ f.categoryId = categoryId /\ f.filename = filename

\* files.find(f => ...): the first match as a one-element sequence, or <<>>
find(files, projectId, categoryId, filename) ==
    LET hits == SelectSeq(files, LAMBDA f : SameFile(f, projectId, categoryId, filename))
    IN IF hits = <<>> THEN <<>> ELSE <<hits[1]>>

HasBlobUrl(found) == found # <<>> /\ Get(found[1], "blobUrl") # Undefined

getAllFiles ==
    \E up \in BOOLEAN :
    \E r \in {getAllFilesFromKV(env, up, kv, disk)} :
       /\ last' = Call("getAllFiles", "ok", "list", r.value, r, NoStore, r.io)
       /\ kv' = r.kv
       /\ disk' = r.disk
       /\ UNCHANGED <<env, blobs, uploads, now, calls, cookieStore>>

getFilesByProject(projectId) ==
    \E up \in BOOLEAN :
    \E r \in {getAllFilesFromKV(env, up, kv, disk)} :
       /\ last' = Call("getFilesByProject", "ok", "list",
                       SelectSeq(r.value, LAMBDA f : f.projectId = projectId),
                       r, NoStore, r.io)
       /\ kv' = r.kv
       /\ disk' = r.disk
       /\ UNCHANGED <<env, blobs, uploads, now, calls, cookieStore>>

getFilesByCategory(projectId, categoryId) ==
    \E up \in BOOLEAN :
    \E r \in {getAllFilesFromKV(env, up, kv, disk)} :
       /\ last' = Call("getFilesByCategory", "ok", "list",
                       SelectSeq(r.value, LAMBDA f : f.projectId = projectId
                                                     /\ f.categoryId = categoryId),
                       r, NoStore, r.io)
       /\ kv' = r.kv
       /\ disk' = r.disk
       /\ UNCHANGED <<env, blobs, uploads, now, calls, cookieStore>>

saveFileMetadata(metadata) ==
    \E up1, up2 \in BOOLEAN :
    \E r \in {getAllFilesFromKV(env, up1, kv, disk)} :
    \E files \in {Append(r.value, metadata)} :
    \E w \in {saveFilesToKV(files, env, up2, r.kv, r.disk, r.io)} :
       /\ Len(r.value) < MaxLen
       /\ last' = Call("saveFileMetadata", "ok", "void", <<>>, r, w, w.io)
       /\ kv' = w.kv
       /\ disk' = w.disk
       /\ UNCHANGED <<env, blobs, uploads, now, calls, cookieStore>>

\* Mutant of saveFileLocal: a file that exists is kept as it is.
saveFileLocalKeep(projectId, categoryId, filename, buffer) ==
    LET filePath == getFilePath(projectId, categoryId, filename)
    IN /\ uploads' = IF uploads[filePath] # "" THEN uploads
                     ELSE [uploads EXCEPT ![filePath] = buffer]
       /\ last' = [NoCall EXCEPT !.op = "saveFile", !.ret = "locator",
                                 !.value = <<filePath>>, !.writeBackend = "local",
                                 !.args = <<projectId, categoryId, filename, buffer>>,
                                 !.previous = Previous("saveFile")]
       /\ UNCHANGED blobs

saveFileLocal(projectId, categoryId, filename, buffer) ==
    LET filePath == getFilePath(projectId, categoryId, filename)
    IN /\ uploads' = [uploads EXCEPT ![filePath] = buffer]
       /\ last' = [NoCall EXCEPT !.op = "saveFile", !.ret = "locator",
                                 !.value = <<filePath>>, !.writeBackend = "local",
                                 !.args = <<projectId, categoryId, filename, buffer>>,
                                 !.previous = Previous("saveFile")]
       /\ UNCHANGED blobs

saveFile(projectId, categoryId, filename, buffer) ==
    /\ IF ~isVercelEnvironment(env)
       THEN saveFileLocal(projectId, categoryId, filename, buffer)
       ELSE \E answered \in BOOLEAN :
            LET url == blobUrlOf(blobPath(projectId, categoryId, filename))
            IN IF answered
               THEN /\ blobs' = [blobs EXCEPT ![url] = buffer]
                    /\ last' = [NoCall EXCEPT !.op = "saveFile", !.ret = "locator",
                                              !.value = <<url>>, !.writeBackend = "remote",
                                              !.io.blob = 1,
                                              !.args = <<projectId, categoryId,
                                                         filename, buffer>>,
                                              !.previous = Previous("saveFile")]
                    /\ UNCHANGED uploads
               ELSE /\ last' = [NoCall EXCEPT !.op = "saveFile", !.outcome = "BlobError",
                                              !.ret = "error", !.io.blob = 1,
                                              !.args = <<projectId, categoryId,
                                                         filename, buffer>>,
                                              !.previous = Previous("saveFile")]
                    /\ UNCHANGED <<blobs, uploads>>
    /\ UNCHANGED <<env, kv, disk, now, calls, cookieStore>>

\* Mutant of unlinkIfExists: fs.unlinkSync without the fs.existsSync test.
unlinkSync(u, filePath) ==
    IF u[filePath] = ""
    THEN [outcome |-> "ENOENT", uploads |-> u]
    ELSE [outcome |-> "ok", uploads |-> [u EXCEPT ![filePath] = ""]]

\* if (fs.existsSync(filePath)) fs.unlinkSync(filePath)
unlinkIfExists(u, filePath) ==
    [outcome |-> "ok", uploads |-> [u EXCEPT ![filePath] = ""]]

\* Mutant of without: only the first matching record is taken out.
withoutFirst(files, projectId, categoryId, filename) ==
    LET hit(i) == SameFile(files[i], projectId, categoryId, filename)
    IN IF \E i \in 1..Len(files) : hit(i)
       THEN LET first == CHOOSE i \in 1..Len(files) :
                            hit(i) /\ \A j \in 1..(i - 1) : ~hit(j)
            IN SubSeq(files, 1, first - 1) \o SubSeq(files, first + 1, Len(files))
       ELSE files

\* Mutant of without: the filter compares projectId and categoryId only.
withoutProject(files, projectId, categoryId, filename) ==
    SelectSeq(files, LAMBDA f : ~(f.projectId = projectId /\ f.categoryId = categoryId))

\* files.filter(f => !(same projectId, categoryId and filename))
without(files, projectId, categoryId, filename) ==
    SelectSeq(files, LAMBDA f : ~SameFile(f, projectId, categoryId, filename))

deleteFile(projectId, categoryId, filename) ==
    \E up1, up2, answered \in BOOLEAN :
    \E r \in {getAllFilesFromKV(env, up1, kv, disk)} :
    \E fileMetadata \in {find(r.value, projectId, categoryId, filename)} :
    \E remote \in {HasBlobUrl(fileMetadata) /\ isVercelEnvironment(env)} :
    \E rm \in {IF ~remote /\ ~isVercelEnvironment(env)
                THEN unlinkIfExists(uploads, getFilePath(projectId, categoryId, filename))
                ELSE [outcome |-> "ok", uploads |-> uploads]} :
    \E filtered \in {without(r.value, projectId, categoryId, filename)} :
    \E w \in {saveFilesToKV(filtered, env, up2, r.kv, r.disk, r.io)} :
    LET args == <<projectId, categoryId, filename>>
    IN /\ blobs' = IF remote /\ answered
                   THEN [blobs EXCEPT ![fileMetadata[1].blobUrl] = ""]
                   ELSE blobs
       /\ uploads' = rm.uploads
       /\ IF rm.outcome # "ok"
          THEN /\ last' = [Call("deleteFile", rm.outcome, "error", <<>>, r, NoStore, r.io)
                             EXCEPT !.args = args, !.previous = Previous("deleteFile")]
               /\ kv' = r.kv
               /\ disk' = r.disk
          ELSE /\ last' = [Call("deleteFile", "ok", "void", <<>>, r, w,
                                 [w.io EXCEPT !.blob = IF remote THEN 1 ELSE 0])
                             EXCEPT !.args = args, !.previous = Previous("deleteFile")]
               /\ kv' = w.kv
               /\ disk' = w.disk
       /\ UNCHANGED <<env, now, calls, cookieStore>>

getFileBlobUrl(projectId, categoryId, filename) ==
    \E up \in BOOLEAN :
    \E r \in {getAllFilesFromKV(env, up, kv, disk)} :
    \E fileMetadata \in {find(r.value, projectId, categoryId, filename)} :
       /\ last' = [(IF HasBlobUrl(fileMetadata)
                    THEN Call("getFileBlobUrl", "ok", "locator",
                              <<fileMetadata[1].blobUrl>>, r, NoStore, r.io)
                    ELSE Call("getFileBlobUrl", "ok", "null", <<>>, r, NoStore, r.io))
                   EXCEPT !.args = <<projectId, categoryId, filename>>]
       /\ kv' = r.kv
       /\ disk' = r.disk
       /\ UNCHANGED <<env, blobs, uploads, now, calls, cookieStore>>

(***************************************************************************)
(* Requests in flight                                                      *)
(*                                                                         *)
(* Every mutating call awaits its collection read, changes the array in    *)
(* memory and awaits the collection write; other requests run between the  *)
(* two. A local write is fs.writeFileSync: the file is opened with         *)
(* truncation and then filled, and the process may die in between.         *)
(***************************************************************************)
Requests == {1, 2}

\* pc: "idle"; "read" (the collection is read, the write not yet issued);
\* "writing" (writeFileSync has truncated the file); "done"; "crashed" (the
\* process died in writeFileSync). projects: the array the call read.
\* before, data: the document writeFileSync found and the one it writes.
Idle ==
    [pc |-> "idle", op |-> "none", args |-> <<>>, projects |-> <<>>,
     rd |-> NoStore, io |-> NoIO, file |-> "none", before |-> <<>>,
     data |-> Absent, done |-> NoCall]

\* A request is one inbound call: it is served once.
Free(c) == calls[c].pc = "idle"

Suspended(c, op, r, args) ==
    [Idle EXCEPT !.pc = "read", !.op = op, !.args = args, !.projects = r.value,
                 !.rd = [backend |-> r.backend, fellBack |-> r.fellBack],
                 !.io = r.io]

\* The call of request c ends with the given record.
Return(c, record) ==
    /\ last' = record
    /\ calls' = [calls EXCEPT ![c] = [@ EXCEPT !.pc = "done", !.done = record]]

\* A file fs.writeFileSync has opened (flag 'w': created or truncated) and not
\* yet filled: no complete JSON text.
Truncated == [state |-> "partial", val |-> <<>>]

\* Mutant of Save: after a failed remote request the call waits for the remote
\* store to come back instead of going on.
SaveAwaitsRemote(c, w, file, record) ==
    IF w.fellBack
    THEN /\ kv' = kv
         /\ disk' = disk
         /\ calls' = [calls EXCEPT ![c] = [@ EXCEPT !.pc = "waiting"]]
         /\ last' = last
    ELSE IF w.outcome = "ok" /\ w.backend = "local"
    THEN /\ kv' = w.kv
         /\ disk' = [w.disk EXCEPT ![file] = Truncated]
         /\ calls' = [calls EXCEPT ![c] =
                         [@ EXCEPT !.pc = "writing", !.file = file,
                                   !.before = IF JSONparses(disk[file])
                                              THEN JSONparse(disk[file]) ELSE <<>>,
                                   !.data = w.disk[file], !.done = record]]
         /\ last' = last
    ELSE /\ kv' = w.kv
         /\ disk' = w.disk
         /\ Return(c, record)

\* The collection write of request c, w being what saveProjectsToKV or
\* saveFilesToKV does with it: a remote write (or an error) ends the call, a
\* local write leaves the file truncated until writeFileSyncEnd.
Save(c, w, file, record) ==
    IF w.outcome = "ok" /\ w.backend = "local"
    THEN /\ kv' = w.kv
         /\ disk' = [w.disk EXCEPT ![file] = Truncated]
         /\ calls' = [calls EXCEPT ![c] =
                         [@ EXCEPT !.pc = "writing", !.file = file,
                                   !.before = IF JSONparses(disk[file])
                                              THEN JSONparse(disk[file]) ELSE <<>>,
                                   !.data = w.disk[file], !.done = record]]
         /\ last' = last
    ELSE /\ kv' = w.kv
         /\ disk' = w.disk
         /\ Return(c, record)

\* fs.writeFileSync returns: the document is complete.
writeFileSyncEnd(c) ==
    /\ calls[c].pc = "writing"
    /\ disk' = [disk EXCEPT ![calls[c].file] = calls[c].data]
    /\ Return(c, calls[c].done)
    /\ UNCHANGED <<env, kv, blobs, uploads, now, cookieStore>>

\* The process dies inside fs.writeFileSync and is started again: the calls in
\* flight are gone, the file stays as the interrupted write left it.
Crash ==
    /\ \E c \in Requests : calls[c].pc = "writing"
    /\ calls' = [c \in Requests |->
                    IF calls[c].pc \in {"read", "writing"}
                    THEN [calls[c] EXCEPT !.pc = "crashed"]
                    ELSE calls[c]]
    /\ last' = NoCall
    /\ UNCHANGED <<env, kv, disk, blobs, uploads, now, cookieStore>>

\* createProject up to the end of `await getAllProjectsFromKV()`
createProjectRead(c, name, description, moduleName, supervisorName) ==
    \E up \in BOOLEAN :
    LET r == getAllProjectsFromKV(env, up, kv, disk)
    IN /\ Free(c)
       /\ kv' = r.kv
       /\ disk' = r.disk
       /\ IF r.outcome # "ok"
          THEN Return(c, Thrown("createProject", r, r, NoStore))
          ELSE /\ Len(r.value) < MaxLen
               /\ calls' = [calls EXCEPT ![c] =
                               Suspended(c, "createProject", r,
                                         <<name, description, moduleName, supervisorName>>)]
               /\ last' = last
       /\ UNCHANGED <<env, blobs, uploads, now, cookieStore>>

\* createProject from there: the record is built and the collection written.
createProjectSave(c) ==
    \E t1, t2, t3 \in now..MaxClock, up \in BOOLEAN :
    LET call == calls[c]
        newProject == Project(NowId(t1), call.args[1], call.args[2], call.args[3],
                              call.args[4], toISOString(t2), toISOString(t3))
        projects == Append(call.projects, newProject)
        w == saveProjectsToKV(projects, env, up, kv, disk, call.io)
    IN /\ call.pc = "read" /\ call.op = "createProject"
       /\ t1 <= t2 /\ t2 <= t3
       /\ Save(c, w, "projects",
               IF w.outcome = "ok"
               THEN Call("createProject", "ok", "record", <<newProject>>, call.rd, w, w.io)
               ELSE Thrown("createProject", w, call.rd, w))
       /\ now' = t3
       /\ UNCHANGED <<env, blobs, uploads, cookieStore>>

\* updateProject up to the not-found return
updateProjectRead(c, id, updates) ==
    \E up \in BOOLEAN :
    LET r == getAllProjectsFromKV(env, up, kv, disk)
    IN /\ Free(c)
       /\ kv' = r.kv
       /\ disk' = r.disk
       /\ IF r.outcome # "ok"
          THEN Return(c, Thrown("updateProject", r, r, NoStore))
          ELSE IF findIndex(r.value, id) = 0
          THEN Return(c, Call("updateProject", "ok", "null", <<>>, r, NoStore, r.io))
          ELSE /\ calls' = [calls EXCEPT ![c] =
                               Suspended(c, "updateProject", r, <<id, updates>>)]
               /\ last' = last
       /\ UNCHANGED <<env, blobs, uploads, now, cookieStore>>

\* updateProject from there: the record is replaced and the collection written.
updateProjectSave(c) ==
    \E t \in now..MaxClock, up \in BOOLEAN :
    LET call == calls[c]
        projectIndex == findIndex(call.projects, call.args[1])
        projects == [call.projects EXCEPT ![projectIndex] =
                         spread(@, call.args[2], toISOString(t))]
        w == saveProjectsToKV(projects, env, up, kv, disk, call.io)
    IN /\ call.pc = "read" /\ call.op = "updateProject"
       /\ Save(c, w, "projects",
               IF w.outcome = "ok"
               THEN Call("updateProject", "ok", "record", <<projects[projectIndex]>>,
                         call.rd, w, w.io)
               ELSE Thrown("updateProject", w, call.rd, w))
       /\ now' = t
       /\ UNCHANGED <<env, blobs, uploads, cookieStore>>

\* saveFileMetadata up to the end of `await getAllFilesFromKV()`
saveFileMetadataRead(c, metadata) ==
    \E up \in BOOLEAN :
    LET r == getAllFilesFromKV(env, up, kv, disk)
    IN /\ Free(c)
       /\ Len(r.value) < MaxLen
       /\ kv' = r.kv
       /\ disk' = r.disk
       /\ calls' = [calls EXCEPT ![c] = Suspended(c, "saveFileMetadata", r, <<metadata>>)]
       /\ UNCHANGED <<env, blobs, uploads, now, last, cookieStore>>

\* saveFileMetadata from there: the record is pushed and the collection written.
saveFileMetadataSave(c) ==
    \E up \in BOOLEAN :
    LET call == calls[c]
        files == Append(call.projects, call.args[1])
        w == saveFilesToKV(files, env, up, kv, disk, call.io)
    IN /\ call.pc = "read" /\ call.op = "saveFileMetadata"
       /\ Save(c, w, "files",
               Call("saveFileMetadata", "ok", "void", <<>>, call.rd, w, w.io))
       /\ UNCHANGED <<env, blobs, uploads, now, cookieStore>>

(***************************************************************************)
(* The environment of the process                                          *)
(***************************************************************************)
\* process.env[n] is set or cleared (deployment configuration changes).
SetEnv(n, v) ==
    /\ env[n] # v
    /\ env' = [env EXCEPT ![n] = v]
    /\ last' = NoCall
    /\ UNCHANGED <<kv, disk, blobs, uploads, now, calls, cookieStore>>

(***************************************************************************)
(* Specifications                                                          *)
(***************************************************************************)
NoKV == [present |-> FALSE, state |-> "absent", val |-> <<>>]

EmptyStores ==
    /\ kv = [projects |-> NoKV, files |-> NoKV]
    /\ disk = [dir |-> FALSE, projects |-> Absent, files |-> Absent]
    /\ blobs = [u \in BlobUrls |-> ""]
    /\ uploads = [p \in FilePaths |-> ""]
    /\ last = NoCall
    /\ calls = [c \in Requests |-> Idle]
    /\ cookieStore = NoCookie

EnvStep ==
    \E n \in EnvNames : \E v \in EnvValues(n) : SetEnv(n, v)

\* The calls of the project repository with their arguments drawn from the given sets.
ProjectCall(names, descriptions, updates) ==
    \/ getAllProjects
    \/ \E id \in Ids : getProject(id)
    \/ \E name \in names, description \in descriptions :
          createProject(name, description, Undefined, Undefined)
    \/ \E id \in Ids, u \in updates : updateProject(id, u)

\* The calls of the file-metadata repository for the given file names and records.
FileCall(filenames, metadata) ==
    \/ getAllFiles
    \/ \E p \in ProjectIds : getFilesByProject(p)
    \/ \E p \in ProjectIds, c \in CategoryIds : getFilesByCategory(p, c)
    \/ \E m \in metadata : saveFileMetadata(m)
    \/ \E p \in ProjectIds, c \in CategoryIds, f \in filenames : deleteFile(p, c, f)
    \/ \E p \in ProjectIds, c \in CategoryIds, f \in filenames : getFileBlobUrl(p, c, f)

\* The calls that store blob content.
BlobCall(filenames, buffers) ==
    \E p \in ProjectIds, c \in CategoryIds, f \in filenames, b \in buffers :
        saveFile(p, c, f, b)

\* Backend selection: every environment, every remote request answered or not,
\* one project name, one file name, and the clock standing at its last reading.
InitBackend ==
    /\ env \in EnvSpace
    /\ now = MaxClock
    /\ EmptyStores

NextProjects ==
    \/ EnvStep
    \/ ProjectCall({"Thesis"}, {Undefined}, {[name |-> "Thesis"]})

SpecProjects == InitBackend /\ [][NextProjects]_vars

\* The record of an upload whose content went to the blob store.
Uploaded == FileMetadata("m1", "p1", "c1", "f1", blobUrlOf(blobPath("p1", "c1", "f1")))

NextFiles ==
    \/ EnvStep
    \/ FileCall({"f1"}, {Uploaded})

SpecFiles == InitBackend /\ [][NextFiles]_vars

\* The stores of the two modules are disjoint (different keys, different files):
\* a run works on one of them, the stores of the others being as constructed.
ProjectsUntouched == ~kv.projects.present /\ disk.projects.state = "absent"
FilesUntouched == ~kv.files.present /\ disk.files.state = "absent"
BlobsUntouched ==
    /\ \A u \in BlobUrls : blobs[u] = ""
    /\ \A p \in FilePaths : uploads[p] = ""

ProjectRun ==
    /\ FilesUntouched /\ BlobsUntouched
    /\ ProjectCall({"Thesis"}, {Undefined}, {[name |-> "Thesis"]})

FileRun == ProjectsUntouched /\ BlobsUntouched /\ FileCall({"f1"}, {Uploaded})

BlobRun == ProjectsUntouched /\ FilesUntouched /\ BlobCall({"f1"}, {"bytes-1"})

Next == EnvStep \/ ProjectRun \/ FileRun \/ BlobRun

Spec == InitBackend /\ [][Next]_vars

(***************************************************************************)
(* The collection store on its own: whole collections written and read     *)
(***************************************************************************)
\* saveProjectsToKV(projects) called on its own; value: the array handed over.
saveProjects(projects) ==
    \E up \in BOOLEAN :
    LET w == saveProjectsToKV(projects, env, up, kv, disk, NoIO)
    IN /\ last' = Call("saveProjects", w.outcome, IF w.outcome = "ok" THEN "void" ELSE "error",
                       projects, NoStore, w, w.io)
       /\ kv' = w.kv
       /\ disk' = w.disk
       /\ UNCHANGED <<env, blobs, uploads, now, calls, cookieStore>>

\* saveFilesToKV(files) called on its own; value: the array handed over.
saveFiles(files) ==
    \E up \in BOOLEAN :
    LET w == saveFilesToKV(files, env, up, kv, disk, NoIO)
    IN /\ last' = Call("saveFiles", w.outcome, "void", files, NoStore, w, w.io)
       /\ kv' = w.kv
       /\ disk' = w.disk
       /\ UNCHANGED <<env, blobs, uploads, now, calls, cookieStore>>

\* Arrays of at most MaxLen of the given records.
Arrays(records) == UNION {[1..n -> records] : n \in 0..MaxLen}

ProjectRecords ==
    {Project("1", "Thesis", Undefined, Undefined, Undefined,
             toISOString(1), toISOString(1)),
     Project("2", "Thesis v2", "notes", Undefined, Undefined,
             toISOString(1), toISOString(2))}

FileRecords ==
    {Uploaded, FileMetadata("m2", "p1", "c1", "f2", Undefined)}

\* No variable set (local files); the KV pair off and on Vercel (projects remote);
\* the blob token and the Upstash pair (both collections remote).
NoEnv == [n \in EnvNames |-> Unset]

StoreEnvs ==
    {NoEnv,
     [NoEnv EXCEPT !.KV_REST_API_URL = "kv-url", !.KV_REST_API_TOKEN = "kv-token"],
     [NoEnv EXCEPT !.VERCEL = "1", !.KV_REST_API_URL = "kv-url",
                   !.KV_REST_API_TOKEN = "kv-token"],
     [NoEnv EXCEPT !.BLOB_READ_WRITE_TOKEN = "blob-token",
                   !.UPSTASH_REDIS_REST_URL = "upstash-url",
                   !.UPSTASH_REDIS_REST_TOKEN = "upstash-token"]}

InitStore ==
    /\ env \in StoreEnvs
    /\ now = MaxClock
    /\ EmptyStores

NextStore ==
    \/ FilesUntouched /\ (\E projects \in Arrays(ProjectRecords) : saveProjects(projects))
    \/ FilesUntouched /\ getAllProjects
    \/ ProjectsUntouched /\ (\E files \in Arrays(FileRecords) : saveFiles(files))
    \/ ProjectsUntouched /\ getAllFiles

SpecStore == InitStore /\ [][NextStore]_vars

(***************************************************************************)
(* Concurrent requests and a process that may die while writing            *)
(***************************************************************************)
\* The blob token and the Upstash pair: both collections on the remote store.
RemoteEnv ==
    [NoEnv EXCEPT !.BLOB_READ_WRITE_TOKEN = "blob-token",
                  !.UPSTASH_REDIS_REST_URL = "upstash-url",
                  !.UPSTASH_REDIS_REST_TOKEN = "upstash-token"]

\* The record createProject("Thesis") leaves at clock reading 1.
Created ==
    Project(NowId(1), "Thesis", Undefined, Undefined, Undefined,
            toISOString(1), toISOString(1))

\* Two requests arrive at a collection that is empty, or at a project
\* collection holding one record, in the store the environment selects.
InitConcurrent ==
    /\ env \in {NoEnv, RemoteEnv}
    /\ now = 1
    /\ blobs = [u \in BlobUrls |-> ""]
    /\ uploads = [p \in FilePaths |-> ""]
    /\ last = NoCall
    /\ calls = [c \in Requests |-> Idle]
    /\ cookieStore = NoCookie
    /\ \E projects \in {<<>>, <<Created>>} :
          /\ kv = IF env = RemoteEnv /\ projects # <<>>
                  THEN redisSet([projects |-> NoKV, files |-> NoKV], PROJECTS_KEY, projects)
                  ELSE [projects |-> NoKV, files |-> NoKV]
          /\ disk = IF env = NoEnv /\ projects # <<>>
                    THEN [dir |-> TRUE, projects |-> JSONstringify(projects),
                          files |-> Absent]
                    ELSE [dir |-> FALSE, projects |-> Absent, files |-> Absent]

\* fs.writeFileSync is synchronous: nothing else runs in the process until it
\* returns or the process dies.
NoWriteInProgress == \A c \in Requests : calls[c].pc # "writing"

ProjectRequest ==
    /\ FilesUntouched /\ NoWriteInProgress
    /\ \/ getAllProjects
       \/ \E c \in Requests : createProjectRead(c, "Thesis", Undefined, Undefined, Undefined)
       \/ \E c \in Requests : createProjectSave(c)
       \/ \E c \in Requests, id \in Ids : updateProjectRead(c, id, [name |-> "Thesis v2"])
       \/ \E c \in Requests : updateProjectSave(c)

FileRequest ==
    /\ ProjectsUntouched /\ NoWriteInProgress
    /\ \/ getAllFiles
       \/ \E c \in Requests, m \in FileRecords : saveFileMetadataRead(c, m)
       \/ \E c \in Requests : saveFileMetadataSave(c)

NextConcurrent ==
    \/ ProjectRequest
    \/ FileRequest
    \/ \E c \in Requests : writeFileSyncEnd(c)
    \/ Crash

SpecConcurrent == InitConcurrent /\ [][NextConcurrent]_vars

(***************************************************************************)
(* The project repository called sequentially while the clock runs         *)
(***************************************************************************)
\* The KV pair on Vercel: the remote store and nothing else (no fallback).
ManagedEnv ==
    [NoEnv EXCEPT !.VERCEL = "1", !.KV_REST_API_URL = "kv-url",
                  !.KV_REST_API_TOKEN = "kv-token"]

\* A stable backend: the local file, or the remote key on the managed platform.
InitData ==
    /\ env \in {NoEnv, ManagedEnv}
    /\ now = 1
    /\ EmptyStores

DataUpdates ==
    {[name |-> "Thesis v2"], [description |-> "notes"],
     [name |-> "Thesis", description |-> Undefined]}

NextData == ProjectCall({"Thesis"}, Descriptions, DataUpdates)

SpecData == InitData /\ [][NextData]_vars

(***************************************************************************)
(* A local projects file the process loses access to                       *)
(***************************************************************************)
\* data/projects.json becomes inaccessible to the process (its mode or owner
\* changes): from then on reading and writing it fail.
DiskFault ==
    /\ disk.projects.state = "json"
    /\ disk' = [disk EXCEPT !.projects = Denied(@)]
    /\ last' = NoCall
    /\ UNCHANGED <<env, kv, blobs, uploads, now, calls, cookieStore>>

\* Access to data/projects.json is restored.
DiskRepair ==
    /\ disk.projects.state = "denied"
    /\ disk' = [disk EXCEPT !.projects = [state |-> "json", val |-> @.val]]
    /\ last' = NoCall
    /\ UNCHANGED <<env, kv, blobs, uploads, now, calls, cookieStore>>

NextFaults ==
    \/ DiskFault
    \/ DiskRepair
    \/ ProjectCall({"Thesis"}, {Undefined}, {[name |-> "Thesis v2"]})

SpecFaults == InitData /\ [][NextFaults]_vars

(***************************************************************************)
(* The store operations one at a time, with a disk that may fail           *)
(***************************************************************************)
\* A URL of the remote store without its token, off the managed platform.
PartialEnv == [NoEnv EXCEPT !.UPSTASH_REDIS_REST_URL = "upstash-url"]

InitRetry ==
    /\ env \in StoreEnvs \cup {PartialEnv}
    /\ now = MaxClock
    /\ EmptyStores

NextRetry ==
    \/ NextStore
    \/ FilesUntouched /\ DiskFault
    \/ FilesUntouched /\ DiskRepair
    \/ ProjectsUntouched /\ FilesUntouched /\ BlobCall({"f1"}, {"bytes-1"})

SpecRetry == InitRetry /\ [][NextRetry]_vars

(***************************************************************************)
(* Calls that have started and must end                                    *)
(***************************************************************************)
\* The next step of request c: it starts a call, or the call it is in goes on
\* after its read, or its fs.writeFileSync returns.
Advance(c) ==
    \/ /\ NoWriteInProgress
       /\ \/ createProjectRead(c, "Thesis", Undefined, Undefined, Undefined)
          \/ createProjectSave(c)
          \/ \E id \in Ids : updateProjectRead(c, id, [name |-> "Thesis v2"])
          \/ updateProjectSave(c)
          \/ saveFileMetadataRead(c, Uploaded)
          \/ saveFileMetadataSave(c)
    \/ writeFileSyncEnd(c)

NextLive == \E c \in Requests : Advance(c)

\* A call suspended at an await is resumed once its request has returned or
\* failed, and fs.writeFileSync returns: the step of a request that can go
\* on is eventually taken. Starting a call is up to the caller.
Resumes(c) == calls[c].pc # "idle" /\ Advance(c)

SpecLive ==
    InitConcurrent /\ [][NextLive]_vars /\ \A c \in Requests : WF_vars(Resumes(c))

(***************************************************************************)
(* Sequential calls on the two collections                                 *)
(***************************************************************************)
\* The clock stands at its last reading: records differ by their description.
InitAppend ==
    /\ env \in {NoEnv, ManagedEnv, RemoteEnv}
    /\ now = MaxClock
    /\ EmptyStores

NextAppend ==
    \/ FilesUntouched /\ ProjectCall({"Thesis"}, Descriptions, {[name |-> "Thesis v2"]})
    \/ ProjectsUntouched /\ FileCall({"f1"}, FileRecords)

SpecAppend == InitAppend /\ [][NextAppend]_vars

(***************************************************************************)
(* The route /api/projects                                                 *)
(***************************************************************************)
ADMIN_COOKIE_NAME == "admin_session"

\* The values of the admin_session cookie a request may carry (Undefined: none).
Cookies == {Undefined, "authenticated", "true"}

\* Mutant of isAdminServer: any admin_session cookie counts.
isAdminServerAnyValue(cookie, cookiesThrows) ==
    IF cookiesThrows THEN FALSE ELSE cookie # Undefined

\* isAdminServer(): cookie is the value of the admin_session cookie of the
\* request; cookiesThrows: cookies() fails (no request scope).
isAdminServer(cookie, cookiesThrows) ==
    IF cookiesThrows THEN FALSE ELSE cookie = "authenticated"

\* The value of the admin_session cookie the client sends with a request at
\* clock reading t: the one it holds, unless its maxAge has passed.
sent(store, t) ==
    IF store.value # Undefined /\ t < store.expires THEN store.value ELSE Undefined

\* A call of lib/auth-server made in a request of the client;
\* args: the cookie the request carried and whether cookies() failed;
\* previous: what changed the cookie last (setAdminSession or
\* clearAdminSession that returned, or an edit).
AuthCall(op, outcome, ret, cookiesThrows) ==
    [NoCall EXCEPT !.op = op, !.outcome = outcome, !.ret = ret,
                   !.args = <<sent(cookieStore, now), cookiesThrows>>,
                   !.previous = IF last.op \in {"setAdminSession", "clearAdminSession",
                                                "EditCookie"}
                                   /\ last.outcome = "ok"
                                THEN <<last.op>>
                                ELSE last.previous]

\* Mutant of setAdminSession: the cookie is set with the value 'true'.
setAdminSessionTrue(cookiesThrows) ==
    /\ IF cookiesThrows
       THEN /\ last' = AuthCall("setAdminSession", "Error", "error", cookiesThrows)
            /\ cookieStore' = cookieStore
       ELSE /\ last' = AuthCall("setAdminSession", "ok", "void", cookiesThrows)
            /\ cookieStore' = [value |-> "true", expires |-> now + MaxAge]
    /\ UNCHANGED <<env, kv, disk, blobs, uploads, now, calls>>

\* setAdminSession(): cookies() is awaited outside any try block.
setAdminSession(cookiesThrows) ==
    /\ IF cookiesThrows
       THEN /\ last' = AuthCall("setAdminSession", "Error", "error", cookiesThrows)
            /\ cookieStore' = cookieStore
       ELSE /\ last' = AuthCall("setAdminSession", "ok", "void", cookiesThrows)
            /\ cookieStore' = [value |-> "authenticated", expires |-> now + MaxAge]
    /\ UNCHANGED <<env, kv, disk, blobs, uploads, now, calls>>

clearAdminSession(cookiesThrows) ==
    /\ IF cookiesThrows
       THEN /\ last' = AuthCall("clearAdminSession", "Error", "error", cookiesThrows)
            /\ cookieStore' = cookieStore
       ELSE /\ last' = AuthCall("clearAdminSession", "ok", "void", cookiesThrows)
            /\ cookieStore' = NoCookie
    /\ UNCHANGED <<env, kv, disk, blobs, uploads, now, calls>>

\* isAdminServer() called in a request of the client.
isAdminServerCall(cookiesThrows) ==
    /\ last' = AuthCall("isAdminServer", "ok",
                        IF isAdminServer(sent(cookieStore, now), cookiesThrows)
                        THEN "true" ELSE "false",
                        cookiesThrows)
    /\ UNCHANGED <<env, kv, disk, blobs, uploads, now, calls, cookieStore>>

\* The client's cookie is edited by hand (any value, not yet expired).
EditCookie(value) ==
    /\ cookieStore.value # value
    /\ cookieStore' = [value |-> value, expires |-> now + MaxAge]
    /\ last' = [NoCall EXCEPT !.op = "EditCookie"]
    /\ UNCHANGED <<env, kv, disk, blobs, uploads, now, calls>>

\* Time passes.
Tick ==
    /\ now < MaxClock
    /\ now' = now + 1
    /\ UNCHANGED <<env, kv, disk, blobs, uploads, last, calls, cookieStore>>

\* One client: its cookie set and cleared by the server or edited by hand,
\* and the admin check of its requests.
NextAuth ==
    \/ \E cookiesThrows \in BOOLEAN :
          \/ setAdminSession(cookiesThrows)
          \/ clearAdminSession(cookiesThrows)
          \/ isAdminServerCall(cookiesThrows)
    \/ \E value \in Cookies \ {Undefined} : EditCookie(value)
    \/ Tick

SpecAuth == InitData /\ [][NextAuth]_vars

\* String.prototype.trim on the texts of the model.
trim(text) ==
    IF text = " " THEN ""
    ELSE IF text = " Thesis " THEN "Thesis"
    ELSE text

\* value?.trim()
optionalTrim(value) == IF value = Undefined THEN Undefined ELSE trim(value)

\* A request body: text that request.json() rejects, or a JSON object whose
\* name is absent, of another type than string, or a string.
NoBody == [json |-> FALSE, nameType |-> "undefined", name |-> Undefined,
           description |-> Undefined]

Body(nameType, name, description) ==
    [json |-> TRUE, nameType |-> nameType, name |-> name, description |-> description]

Bodies ==
    {NoBody,
     Body("undefined", Undefined, Undefined),
     Body("number", "42", Undefined),
     Body("string", "", Undefined),
     Body("string", " ", "notes"),
     Body("string", " Thesis ", Undefined),
     Body("string", "Thesis", " ")}

\* !name || typeof name !== 'string' || name.trim().length === 0
nameMissing(body) ==
    \/ body.nameType = "undefined"
    \/ body.name = ""
    \/ body.nameType # "string"
    \/ trim(body.name) = ""

\* The response of a handler: ret is the HTTP status, value the JSON body
\* when it is a project or a list, args the request.
Response(call, status, request) ==
    [call EXCEPT !.op = request[1], !.ret = status, !.args = request,
                 !.value = IF status \in {"200", "201"} THEN call.value ELSE <<>>]

GET ==
    \E up \in BOOLEAN :
    LET r == getAllProjectsFromKV(env, up, kv, disk)
    IN /\ last' = IF r.outcome = "ok"
                  THEN Response(Call("GET", "ok", "list", r.value, r, NoStore, r.io),
                                "200", <<"GET">>)
                  ELSE Response(Thrown("GET", r, r, NoStore), "500", <<"GET">>)
       /\ kv' = r.kv
       /\ disk' = r.disk
       /\ UNCHANGED <<env, blobs, uploads, now, calls, cookieStore>>

\* Mutant of POST: the body is parsed and validated before the admin check.
POSTParseFirst(cookie, cookiesThrows, body) ==
    LET request == <<"POST", cookie, cookiesThrows, body>>
    IN IF ~body.json \/ nameMissing(body)
       THEN /\ last' = Response(NoCall, "400", request)
            /\ UNCHANGED <<env, kv, disk, blobs, uploads, now, calls, cookieStore>>
       ELSE IF ~isAdminServer(cookie, cookiesThrows)
       THEN /\ last' = Response(NoCall, "403", request)
            /\ UNCHANGED <<env, kv, disk, blobs, uploads, now, calls, cookieStore>>
       ELSE \E t1, t2, t3 \in now..MaxClock, up1, up2 \in BOOLEAN :
               /\ t1 <= t2 /\ t2 <= t3
               /\ LET c == createProjectCall(trim(body.name),
                                             optionalTrim(body.description),
                                             Undefined, Undefined,
                                             t1, t2, t3, up1, up2)
                  IN /\ c.enabled
                     /\ last' = Response(c.last,
                                         IF c.last.outcome = "ok" THEN "201" ELSE "500",
                                         request)
                     /\ kv' = c.kv
                     /\ disk' = c.disk
                     /\ now' = c.now
               /\ UNCHANGED <<env, blobs, uploads, calls, cookieStore>>

\* Mutant of POST: the name is stored as the body gives it.
POSTUntrimmed(cookie, cookiesThrows, body) ==
    LET request == <<"POST", cookie, cookiesThrows, body>>
    IN IF ~isAdminServer(cookie, cookiesThrows)
       THEN /\ last' = Response(NoCall, "403", request)
            /\ UNCHANGED <<env, kv, disk, blobs, uploads, now, calls, cookieStore>>
       ELSE IF ~body.json \/ nameMissing(body)
       THEN /\ last' = Response(NoCall, "400", request)
            /\ UNCHANGED <<env, kv, disk, blobs, uploads, now, calls, cookieStore>>
       ELSE \E t1, t2, t3 \in now..MaxClock, up1, up2 \in BOOLEAN :
               /\ t1 <= t2 /\ t2 <= t3
               /\ LET c == createProjectCall(body.name,
                                             optionalTrim(body.description),
                                             Undefined, Undefined,
                                             t1, t2, t3, up1, up2)
                  IN /\ c.enabled
                     /\ last' = Response(c.last,
                                         IF c.last.outcome = "ok" THEN "201" ELSE "500",
                                         request)
                     /\ kv' = c.kv
                     /\ disk' = c.disk
                     /\ now' = c.now
               /\ UNCHANGED <<env, blobs, uploads, calls, cookieStore>>

POST(cookie, cookiesThrows, body) ==
    LET request == <<"POST", cookie, cookiesThrows, body>>
    IN IF ~isAdminServer(cookie, cookiesThrows)
       THEN /\ last' = Response(NoCall, "403", request)
            /\ UNCHANGED <<env, kv, disk, blobs, uploads, now, calls, cookieStore>>
       ELSE IF ~body.json
       THEN /\ last' = Response(NoCall, "400", request)
            /\ UNCHANGED <<env, kv, disk, blobs, uploads, now, calls, cookieStore>>
       ELSE IF nameMissing(body)
       THEN /\ last' = Response(NoCall, "400", request)
            /\ UNCHANGED <<env, kv, disk, blobs, uploads, now, calls, cookieStore>>
       ELSE \E t1, t2, t3 \in now..MaxClock, up1, up2 \in BOOLEAN :
               /\ t1 <= t2 /\ t2 <= t3
               /\ LET c == createProjectCall(trim(body.name),
                                             optionalTrim(body.description),
                                             Undefined, Undefined,
                                             t1, t2, t3, up1, up2)
                  IN /\ c.enabled
                     /\ last' = Response(c.last,
                                         IF c.last.outcome = "ok" THEN "201" ELSE "500",
                                         request)
                     /\ kv' = c.kv
                     /\ disk' = c.disk
                     /\ now' = c.now
               /\ UNCHANGED <<env, blobs, uploads, calls, cookieStore>>

NextRoute ==
    \/ GET
    \/ \E cookie \in Cookies, cookiesThrows \in BOOLEAN, body \in Bodies :
          POST(cookie, cookiesThrows, body)

SpecRoute == InitData /\ [][NextRoute]_vars

(***************************************************************************)
(* Uploads: blob content and its metadata under a changing deployment      *)
(***************************************************************************)
\* The process is started again with another configuration.
Deploy(e) ==
    /\ env # e
    /\ env' = e
    /\ last' = NoCall
    /\ UNCHANGED <<kv, disk, blobs, uploads, now, calls, cookieStore>>

\* The records callers save: for f1 and for f2, each with the url of its blob
\* (no content is ever stored for f2).
UploadRecords ==
    {Uploaded,
     FileMetadata("m2", "p1", "c1", "f2", blobUrlOf(blobPath("p1", "c1", "f2")))}

InitUploads ==
    /\ env \in {NoEnv, RemoteEnv}
    /\ now = MaxClock
    /\ EmptyStores

NextUploads ==
    \/ \E e \in {NoEnv, RemoteEnv} : Deploy(e)
    \/ BlobCall({"f1"}, {"bytes-1"})
    \/ FileCall(Filenames, UploadRecords)

SpecUploads == InitUploads /\ [][NextUploads]_vars

\* The blob content store alone: two files, two contents.
NextBlobs ==
    \/ \E e \in {NoEnv, RemoteEnv} : Deploy(e)
    \/ BlobCall(Filenames, Buffers)

SpecBlobs == InitUploads /\ [][NextBlobs]_vars

(***************************************************************************)
(* The environment as the specification classifies it                      *)
(***************************************************************************)
ManagedPlatform(e) == e.VERCEL = "1" \/ e.VERCEL_ENV # Unset

CompleteCredentials(e) ==
    \/ e.KV_REST_API_URL # Unset /\ e.KV_REST_API_TOKEN # Unset
    \/ e.UPSTASH_REDIS_REST_URL # Unset /\ e.UPSTASH_REDIS_REST_TOKEN # Unset

NoCredentials(e) ==
    /\ e.KV_REST_API_URL = Unset /\ e.KV_REST_API_TOKEN = Unset
    /\ e.UPSTASH_REDIS_REST_URL = Unset /\ e.UPSTASH_REDIS_REST_TOKEN = Unset

PartialCredentials(e) == ~CompleteCredentials(e) /\ ~NoCredentials(e)

ClearCredentials(e) ==
    [e EXCEPT !.KV_REST_API_URL = Unset, !.KV_REST_API_TOKEN = Unset,
              !.UPSTASH_REDIS_REST_URL = Unset, !.UPSTASH_REDIS_REST_TOKEN = Unset]

ProjectOps == {"getAllProjects", "getProject", "createProject", "updateProject"}

FileOps ==
    {"getAllFiles", "getFilesByProject", "getFilesByCategory", "saveFileMetadata",
     "deleteFile", "getFileBlobUrl"}

\* A step that is a call of one of the given operations (the environment is
\* changed by no call, and by every other step).
CallOf(ops) == env' = env /\ last'.op \in ops

(***************************************************************************)
(* Claims                                                                  *)
(***************************************************************************)
\* C1: on a managed platform with no remote key-value credentials every call of
\* the project repository fails with the configuration-missing error and
\* writes nothing to the local data directory or the projects file.
C1_ManagedWithoutCredentialsFails ==
    [][(CallOf(ProjectOps) /\ ManagedPlatform(env) /\ NoCredentials(env))
          => /\ last'.outcome = "ConfigurationMissing"
             /\ last'.io.lwrite = 0
             /\ disk' = disk]_vars

\* C1 witness: createProject failed so on a managed platform without credentials,
\* next to a projects file an earlier configuration had written.
C1_Witness ==
    /\ last.op = "createProject" /\ last.outcome = "ConfigurationMissing"
    /\ ManagedPlatform(env) /\ NoCredentials(env)
    /\ disk.projects.state = "json"

\* C2 (as claimed): on a managed platform with no remote key-value credentials every
\* call of the file-metadata repository fails with the configuration-missing
\* error and writes nothing to the local filesystem.
C2_Claimed ==
    [][(CallOf(FileOps) /\ ManagedPlatform(env) /\ NoCredentials(env))
          => /\ last'.outcome = "ConfigurationMissing"
             /\ last'.io.lwrite = 0
             /\ disk' = disk]_vars

\* C3: on a managed platform with credentials, a failed remote request of a
\* project call reaches the caller as that error, and the local projects file
\* is neither read nor written.
C3_ManagedFailurePropagates ==
    [][(CallOf(ProjectOps) /\ ManagedPlatform(env) /\ CompleteCredentials(env)
           /\ last'.io.failed > 0)
          => /\ last'.outcome = "RedisError"
             /\ last'.ret = "error"
             /\ last'.io.lread = 0 /\ last'.io.lwrite = 0
             /\ disk' = disk
             /\ kv' = kv]_vars

\* C3 witness: on a managed platform createProject read the collection remotely
\* and its write request failed.
C3_Witness ==
    /\ last.op = "createProject" /\ last.outcome = "RedisError"
    /\ last.io.remote = 2 /\ last.io.failed = 1
    /\ ManagedPlatform(env) /\ CompleteCredentials(env)

\* C4 (as claimed): on a managed platform with credentials, a failed remote request
\* of a file-metadata call reaches the caller and nothing falls back to the
\* local files document.
C4_Claimed ==
    [][(CallOf(FileOps) /\ ManagedPlatform(env) /\ CompleteCredentials(env)
           /\ last'.io.failed > 0)
          => /\ last'.outcome # "ok"
             /\ ~last'.fellBack
             /\ last'.io.lread = 0 /\ last'.io.lwrite = 0
             /\ disk' = disk]_vars

\* C5 (as claimed): on a non-managed host a call on either collection goes to the
\* remote key-value store exactly when a complete credential pair is present,
\* and to the local file otherwise.
C5_Claimed ==
    [][(CallOf(ProjectOps \cup FileOps) /\ ~ManagedPlatform(env))
          => /\ CompleteCredentials(env) => last'.io.remote > 0
             /\ ~CompleteCredentials(env)
                   => last'.io.remote = 0 /\ last'.readBackend = "local"]_vars

\* C6 (as claimed): with a partial or mismatched credential set every collection
\* operation does what it does with no credential set, and sends no remote
\* request.
C6_Claimed ==
    [][(CallOf(ProjectOps \cup FileOps) /\ PartialCredentials(env))
          => /\ last'.io.remote = 0
             /\ last'.op \in ProjectOps
                   => \A up \in BOOLEAN :
                         getAllProjectsFromKV(env, up, kv, disk)
                           = getAllProjectsFromKV(ClearCredentials(env), up, kv, disk)
             /\ last'.op \in FileOps
                   => \A up \in BOOLEAN :
                         getAllFilesFromKV(env, up, kv, disk)
                           = getAllFilesFromKV(ClearCredentials(env), up, kv, disk)]_vars

C8_FallbackWithinTheCall ==
    [][(CallOf(ProjectOps \cup FileOps) /\ ~ManagedPlatform(env)
           /\ CompleteCredentials(env) /\ last'.io.failed > 0)
          => /\ last'.outcome = "ok" /\ last'.ret # "error"
             /\ last'.fellBack
             /\ (last'.op = "getAllProjects") => last'.value = JSONparse(disk'.projects)
             /\ (last'.op = "getAllFiles") => last'.value = JSONparse(disk'.files)
             /\ (last'.op = "createProject" /\ last'.writeBackend = "local")
                   => /\ JSONparses(disk'.projects)
                      /\ JSONparse(disk'.projects) # <<>>
                      /\ JSONparse(disk'.projects)[Len(JSONparse(disk'.projects))]
                           = serialize(last'.value[1])
                      /\ kv' = kv
             /\ (last'.op = "saveFileMetadata" /\ last'.writeBackend = "local")
                   => /\ JSONparses(disk'.files)
                      /\ JSONparse(disk'.files) # <<>>
                      /\ \A m \in MetadataOf(Filenames) :
                            saveFileMetadata(m)
                               => JSONparse(disk'.files)[Len(JSONparse(disk'.files))]
                                     = serialize(m)
                      /\ kv' = kv]_vars

\* C8 witness: createProject on a non-managed host with credentials, both of
\* its remote requests failed, returned its record, which is in the local file.
C8_Witness ==
    /\ last.op = "createProject" /\ last.outcome = "ok" /\ last.fellBack
    /\ last.io.failed = 2
    /\ ~ManagedPlatform(env) /\ CompleteCredentials(env)
    /\ JSONparse(disk.projects) # <<>>
    /\ ~kv.projects.present

\* C9: a fallback is not remembered. A write that fell back leaves the remote
\* store as it was; the call after a fallback (non-managed host) asks the
\* remote store again, and when that answers, the read is the remote
\* collection, without what the fallback wrote to the local file.
C9_FallbackNotSticky ==
    [][CallOf(ProjectOps \cup FileOps)
          => /\ last'.writeBackend = "local" => kv' = kv
             /\ (last.fellBack /\ ~ManagedPlatform(env))
                   => /\ last'.io.remote > 0
                      /\ (last'.op = "getAllProjects" /\ last'.readBackend = "remote")
                            => last'.value = redisGet(kv, PROJECTS_KEY)
                      /\ (last'.op = "getAllFiles" /\ last'.readBackend = "remote")
                            => last'.value = redisGet(kv, FILES_KEY)]_vars

\* C9 witness: getAllProjects, right after a call that fell back, read the
\* remote collection, which is empty while the local file holds the record
\* written through the fallback.
C9_Witness ==
    /\ last.op = "getAllProjects" /\ last.afterFallback
    /\ last.readBackend = "remote" /\ last.value = <<>>
    /\ ~ManagedPlatform(env)
    /\ ~kv.projects.present
    /\ JSONparse(disk.projects) # <<>>

\* C10: every call selects its backend from the environment it runs in, whatever
\* the earlier calls selected: the project collection asks the remote store
\* exactly when getRedisConfig finds a pair (else fails on a managed platform,
\* reads locally elsewhere), the file collection and saveFile go remote exactly
\* when the blob token and the Upstash URL are set.
C10_SelectionFromCurrentEnvironment ==
    [][(CallOf(ProjectOps \cup FileOps \cup {"saveFile"}))
          => /\ last'.op \in ProjectOps
                   => /\ CompleteCredentials(env) <=> last'.io.remote > 0
                      /\ (~CompleteCredentials(env) /\ ManagedPlatform(env))
                            => last'.outcome = "ConfigurationMissing"
                      /\ (~CompleteCredentials(env) /\ ~ManagedPlatform(env))
                            => last'.readBackend = "local" /\ ~last'.fellBack
             /\ last'.op \in FileOps
                   => /\ (env.BLOB_READ_WRITE_TOKEN # Unset
                            /\ env.UPSTASH_REDIS_REST_URL # Unset) <=> last'.io.remote > 0
                      /\ last'.io.remote = 0
                            => last'.readBackend = "local" /\ ~last'.fellBack
             /\ last'.op = "saveFile"
                   => /\ (env.BLOB_READ_WRITE_TOKEN # Unset
                            /\ env.UPSTASH_REDIS_REST_URL # Unset) <=> last'.io.blob = 1
                      /\ last'.io.blob = 0 => last'.writeBackend = "local"]_vars

\* C10 witness: the remote store holds a collection an earlier call wrote with
\* credentials, and getAllProjects, the credentials since removed, selected the
\* local file (no fallback).
C10_Witness ==
    /\ last.op = "getAllProjects" /\ last.readBackend = "local" /\ ~last.fellBack
    /\ last.io.remote = 0
    /\ kv.projects.present
    /\ ~CompleteCredentials(env)

\* C11: a read of a collection that was never written returns the empty
\* sequence and does not fail: on the remote backend when the key is absent,
\* on the local backend when the file is absent (both collections).
C11_NeverWrittenReadsEmpty ==
    [][CallOf({"getAllProjects", "getAllFiles"})
          => LET key == IF last'.op = "getAllProjects" THEN PROJECTS_KEY ELSE FILES_KEY
                 neverWritten ==
                    \/ last'.readBackend = "remote" /\ ~kv[key].present
                    \/ last'.readBackend = "local" /\ disk[key].state = "absent"
             IN neverWritten
                   => /\ last'.outcome = "ok"
                      /\ last'.ret = "list"
                      /\ last'.value = <<>>]_vars

\* C11 witness: getAllProjects was answered by the remote store, whose key was
\* never written (the local file holds a record), and returned the empty list.
C11_Witness ==
    /\ last.op = "getAllProjects" /\ last.readBackend = "remote"
    /\ last.outcome = "ok" /\ last.value = <<>>
    /\ ~kv.projects.present
    /\ JSONparses(disk.projects) /\ JSONparse(disk.projects) # <<>>

\* C11 second case: getAllFiles read the local backend with no file there, and
\* returned the empty list (the file now exists, holding the empty array).
C11_WitnessLocal ==
    /\ last.op = "getAllFiles" /\ last.readBackend = "local"
    /\ last.io.lwrite > 0
    /\ last.value = <<>>
    /\ disk.files = JSONstringify(<<>>)

\* Two arrays of records are equal: the same length and, position by position,
\* every property reads the same (a property left out reads undefined, which
\* is how JSON carries an undefined one).
SameRecords(a, b) ==
    /\ Len(a) = Len(b)
    /\ \A i \in 1..Len(a) :
          \A f \in DOMAIN a[i] \cup DOMAIN b[i] : Get(a[i], f) = Get(b[i], f)

\* C12: for both collections and both backends, a collection read that follows
\* a collection write at once and is served by the backend the write went to
\* returns the records written, in the order written.
C12_RoundTrip ==
    [][/\ (last.op = "saveProjects" /\ last.outcome = "ok"
           /\ last'.op = "getAllProjects" /\ last'.outcome = "ok"
           /\ last'.readBackend = last.writeBackend)
             => SameRecords(last'.value, last.value)
       /\ (last.op = "saveFiles" /\ last.outcome = "ok"
           /\ last'.op = "getAllFiles" /\ last'.outcome = "ok"
           /\ last'.readBackend = last.writeBackend)
             => SameRecords(last'.value, last.value)]_vars

\* C12 witness: two project records, one of them with a description, were
\* written to the remote store (the local file holding something else) and
\* the read that followed came from the remote store with both.
C12_Witness ==
    /\ last.op = "getAllProjects" /\ last.readBackend = "remote"
    /\ Len(last.value) = 2
    /\ Get(last.value[1], "description") # Get(last.value[2], "description")
    /\ kv.projects.present /\ last.value = JSONparse(kv.projects)
    /\ JSONparses(disk.projects) /\ JSONparse(disk.projects) # last.value

\* C13 (as claimed): a whole-collection write is atomic for readers: a read of the
\* local document a write was interrupted in (the process died inside it)
\* returns the collection the write found or the collection it was writing.
C13_Claimed ==
    [][(CallOf({"getAllProjects", "getAllFiles"}) /\ last'.readBackend = "local")
          => LET file == IF last'.op = "getAllProjects" THEN "projects" ELSE "files"
             IN \A c \in Requests :
                   (calls[c].pc = "crashed" /\ calls[c].file = file
                      /\ disk[file] = Truncated)
                     => \/ SameRecords(last'.value, calls[c].before)
                        \/ SameRecords(last'.value, JSONparse(calls[c].data))]_vars

\* The collection a backend holds under a key, as a read served by it returns it.
Stored(backend, key, k, d) ==
    IF backend = "remote" THEN redisGet(k, key)
    ELSE IF JSONparses(d[key]) THEN JSONparse(d[key]) ELSE <<>>

KeyOf(op) == IF op = "saveFileMetadata" THEN FILES_KEY ELSE PROJECTS_KEY

\* Request c read the collection from a backend and its write went to the same.
OnOneBackend(call) ==
    /\ call.done.outcome = "ok" /\ call.done.ret # "null"
    /\ call.done.writeBackend = call.rd.backend

\* What a mutating call writes: the array it read with its own change, and
\* nothing of what was stored since.
OwnWrite(call) ==
    IF call.op = "createProject" THEN Append(call.projects, call.done.value[1])
    ELSE IF call.op = "updateProject"
    THEN [call.projects EXCEPT ![findIndex(call.projects, call.args[1])] =
             call.done.value[1]]
    ELSE Append(call.projects, call.args[1])

\* Requests c and d interleaved, d the earlier writer: both read the same
\* collection from the same backend and d has written it back.
EarlierWriter(d, c) ==
    /\ d # c
    /\ calls[d].pc = "done" /\ OnOneBackend(calls[d])
    /\ KeyOf(calls[d].op) = KeyOf(calls[c].op)
    /\ calls[d].rd.backend = calls[c].rd.backend
    /\ calls[d].projects = calls[c].projects

\* C14: when two mutating calls on a collection interleave (both read before
\* either writes), the write of the later one leaves the store holding exactly
\* what it wrote - the collection both read, with the later call's change
\* alone: the earlier change is gone and the two are never merged.
C14_LaterWriterWinsInFull ==
    [][\A c \in Requests :
          (/\ calls[c].pc \in {"read", "writing"} /\ calls'[c].pc = "done"
           /\ OnOneBackend(calls'[c])
           /\ \E d \in Requests : EarlierWriter(d, c))
             => LET call == calls'[c]
                    stored == Stored(call.rd.backend, KeyOf(call.op), kv', disk')
                IN /\ SameRecords(stored, OwnWrite(call))
                   /\ Len(stored) = Len(call.projects)
                                      + (IF call.op = "updateProject" THEN 0 ELSE 1)]_vars

\* C14 witness: two createProject calls read the same one-record collection,
\* both returned their record (with different timestamps), and the store
\* holds two records: the old one and the record of the call that wrote last.
C14_Witness ==
    /\ \A c \in Requests :
          /\ calls[c].pc = "done" /\ calls[c].op = "createProject"
          /\ OnOneBackend(calls[c])
          /\ calls[c].projects = <<serialize(Created)>>
    /\ calls[1].done.value # calls[2].done.value
    /\ \E c \in Requests :
          /\ last = calls[c].done
          /\ LET stored == Stored(last.writeBackend, PROJECTS_KEY, kv, disk)
             IN /\ Len(stored) = 2
                /\ stored[2] = serialize(last.value[1])

\* The project collection the call of this step read (its read backend), before
\* and after the step.
ProjectsBefore == Stored(last'.readBackend, PROJECTS_KEY, kv, disk)
ProjectsAfter == Stored(last'.readBackend, PROJECTS_KEY, kv', disk')

\* C15: updateProject with an id that no stored record has returns null, not
\* an error, issues no collection write and leaves the stored collection as
\* it was.
C15_UpdateNotFound ==
    [][\A id \in Ids, u \in DataUpdates :
          (/\ updateProject(id, u)
           /\ last'.outcome = "ok"
           /\ \A i \in 1..Len(ProjectsBefore) : ProjectsBefore[i].id # id)
             => /\ last'.ret = "null" /\ last'.value = <<>>
                /\ last'.writeBackend = "none"
                /\ last'.io.remote <= 1
                /\ kv' = kv
                /\ ProjectsAfter = ProjectsBefore
                /\ Stored("local", PROJECTS_KEY, kv', disk')
                      = Stored("local", PROJECTS_KEY, kv, disk)]_vars

\* C15 witness: updateProject returned null while the collection it read holds
\* a record (of another id).
C15_Witness ==
    /\ last.op = "updateProject" /\ last.outcome = "ok" /\ last.ret = "null"
    /\ Stored(last.readBackend, PROJECTS_KEY, kv, disk) # <<>>

UniqueIds(projects) ==
    \A i, j \in 1..Len(projects) : projects[i].id = projects[j].id => i = j

\* C16 (as claimed): in every reachable state no two records of the project
\* collection share an id, whenever the createProject calls were made.
C16_Claimed ==
    /\ UniqueIds(Stored("remote", PROJECTS_KEY, kv, disk))
    /\ UniqueIds(Stored("local", PROJECTS_KEY, kv, disk))

\* C17 (as claimed): the record createProject returns has createdAt equal to
\* updatedAt, whatever the clock does during the call.
C17_Claimed ==
    [][(CallOf({"createProject"}) /\ last'.ret = "record")
          => last'.value[1].createdAt = last'.value[1].updatedAt]_vars

\* toISOString texts compare as the instants do: digit by digit from the left.
Earlier(a, b) == a[1] < b[1] \/ (a[1] = b[1] /\ a[2] < b[2])

\* C18 (as claimed): a successful updateProject leaves the record with an updatedAt
\* strictly later than it had, and therefore strictly later than its createdAt.
C18_Claimed ==
    [][\A id \in Ids, u \in DataUpdates :
          (updateProject(id, u) /\ last'.ret = "record")
             => LET existingProject == ProjectsBefore[findIndex(ProjectsBefore, id)]
                IN /\ Earlier(existingProject.updatedAt, last'.value[1].updatedAt)
                   /\ Earlier(last'.value[1].createdAt, last'.value[1].updatedAt)]_vars

\* C19: a successful updateProject changes, of the stored collection, only the
\* properties named in the update and updatedAt of the matched record (the
\* first with the id): that record keeps its id, its createdAt and its other
\* properties, every other record is as it was, and so are the number and the
\* order of the records. The record returned is the stored one.
C19_UpdateFrame ==
    [][\A id \in Ids, u \in DataUpdates :
          (updateProject(id, u) /\ last'.ret = "record")
             => LET projectIndex == findIndex(ProjectsBefore, id)
                    old == ProjectsBefore[projectIndex]
                    new == ProjectsAfter[projectIndex]
                IN /\ Len(ProjectsAfter) = Len(ProjectsBefore)
                   /\ \A i \in 1..Len(ProjectsBefore) :
                         i # projectIndex => ProjectsAfter[i] = ProjectsBefore[i]
                   /\ new.id = id /\ new.id = old.id
                   /\ new.createdAt = old.createdAt
                   /\ \A f \in (DOMAIN old \cup DOMAIN new) \ (DOMAIN u \cup {"updatedAt"}) :
                         Get(new, f) = Get(old, f)
                   /\ \A f \in DOMAIN u : Get(new, f) = u[f]
                   /\ SameRecords(<<last'.value[1]>>, <<new>>)]_vars

\* C19 witness: updateProject renamed the second of two stored records, which
\* has another id than the first and kept the description it was created with.
C19_Witness ==
    /\ last.op = "updateProject" /\ last.ret = "record"
    /\ LET stored == Stored(last.writeBackend, PROJECTS_KEY, kv, disk)
       IN /\ Len(stored) = 2
          /\ stored[1].id # stored[2].id
          /\ stored[2] = serialize(last.value[1])
          /\ stored[2].name = "Thesis v2"
          /\ Get(stored[2], "description") = "notes"
          /\ stored[1].name = "Thesis"

\* C20 (as claimed): over sequential createProject and updateProject calls on a
\* stable backend, starting empty, getAllProjects returns one record per
\* create, each with its assigned id and the values of its latest update,
\* and nothing else. Step by step: a create adds exactly the record it
\* returns, at the end; an update of an id keeps the number of records and
\* leaves every record of that id carrying the values of the update, the
\* records of other ids as they were; getAllProjects returns what is stored.
C20_Claimed ==
    [][/\ (CallOf({"createProject"}) /\ last'.ret = "record")
             => SameRecords(ProjectsAfter, Append(ProjectsBefore, last'.value[1]))
       /\ \A id \in Ids, u \in DataUpdates :
             (updateProject(id, u) /\ last'.ret = "record")
                => /\ Len(ProjectsAfter) = Len(ProjectsBefore)
                   /\ \A i \in 1..Len(ProjectsAfter) :
                         IF ProjectsAfter[i].id = id
                         THEN \A f \in DOMAIN u : Get(ProjectsAfter[i], f) = u[f]
                         ELSE ProjectsAfter[i] = ProjectsBefore[i]
       /\ (CallOf({"getAllProjects"}) /\ last'.outcome = "ok")
             => last'.value = ProjectsBefore]_vars

UniqueTriples(files) ==
    \A i, j \in 1..Len(files) :
       SameFile(files[i], files[j].projectId, files[j].categoryId, files[j].filename)
          => i = j

\* C21 (as claimed): in every reachable state no two records of the file-metadata
\* collection have the same projectId, categoryId and filename.
C21_Claimed ==
    /\ UniqueTriples(Stored("remote", FILES_KEY, kv, disk))
    /\ UniqueTriples(Stored("local", FILES_KEY, kv, disk))

\* The file-metadata collection the call of this step read, before the step,
\* and the record of the call's triple in it (as files.find gives it).
FilesBefore == Stored(last'.readBackend, FILES_KEY, kv, disk)
FoundBefore == find(FilesBefore, last'.args[1], last'.args[2], last'.args[3])

\* The collection the call of this step wrote, after the step.
FilesWritten == Stored(last'.writeBackend, FILES_KEY, kv', disk')

BlobStoreSelected(e) == e.BLOB_READ_WRITE_TOKEN # Unset /\ e.UPSTASH_REDIS_REST_URL # Unset

\* C22 (as claimed): deleteFile removes the blob content before the metadata record:
\* whenever a deleteFile has taken a record with a blob url out of the
\* collection, the content under that url is gone from the blob store.
C22_Claimed ==
    [][(CallOf({"deleteFile"}) /\ last'.outcome = "ok" /\ HasBlobUrl(FoundBefore)
          /\ find(FilesWritten, last'.args[1], last'.args[2], last'.args[3]) = <<>>)
          => blobs'[FoundBefore[1].blobUrl] = ""]_vars

\* C23: deleteFile on a record whose content is already missing - no object
\* under its url in the blob store, or no file under its path on the local
\* disk - returns without error and the collection it writes is the one it
\* read without the records of that triple.
C23_DeleteWithoutContent ==
    [][(CallOf({"deleteFile"}) /\ FoundBefore # <<>>
          /\ \/ /\ BlobStoreSelected(env) /\ HasBlobUrl(FoundBefore)
                /\ blobs[FoundBefore[1].blobUrl] = ""
             \/ /\ ~BlobStoreSelected(env)
                /\ uploads[getFilePath(last'.args[1], last'.args[2], last'.args[3])] = "")
          => /\ last'.outcome = "ok" /\ last'.ret = "void"
             /\ find(FilesWritten, last'.args[1], last'.args[2], last'.args[3]) = <<>>
             /\ \A i \in 1..Len(FilesWritten) :
                   \E j \in 1..Len(FilesBefore) : FilesWritten[i] = FilesBefore[j]
             /\ Len(FilesWritten) < Len(FilesBefore)
             /\ blobs' = blobs /\ uploads' = uploads]_vars

\* C23 witness: deleteFile of f2, whose record has a blob url and whose content
\* was never stored, asked the blob store to delete it, returned normally,
\* and no record of f2 is left in the remote collection.
C23_Witness ==
    /\ last.op = "deleteFile" /\ last.outcome = "ok"
    /\ last.args = <<"p1", "c1", "f2">>
    /\ last.io.blob = 1
    /\ last.readBackend = "remote" /\ last.writeBackend = "remote"
    /\ find(Stored("remote", FILES_KEY, kv, disk), "p1", "c1", "f2") = <<>>
    /\ blobs[blobUrlOf(blobPath("p1", "c1", "f2"))] = ""

\* C23 second case: on the local disk, deleteFile of f2 (no file under uploads)
\* returned normally and took its record out of the local collection, which
\* still holds the record of f1.
C23_WitnessLocal ==
    /\ last.op = "deleteFile" /\ last.outcome = "ok"
    /\ last.args = <<"p1", "c1", "f2">>
    /\ last.readBackend = "local" /\ ~last.fellBack
    /\ ~BlobStoreSelected(env)
    /\ find(Stored("local", FILES_KEY, kv, disk), "p1", "c1", "f2") = <<>>
    /\ find(Stored("local", FILES_KEY, kv, disk), "p1", "c1", "f1") # <<>>

\* C24: deleteFile is idempotent: a second deleteFile of the same triple, right
\* after a first that returned (every request of the two to the collection
\* store answered), returns without error and leaves the blob store, the
\* uploads directory and the metadata collection as the first left them.
C24_DeleteIdempotent ==
    [][(CallOf({"deleteFile"}) /\ last'.previous = last'.args
          /\ last.io.failed = 0 /\ last'.io.failed = 0)
          => /\ last'.outcome = "ok"
             /\ blobs' = blobs /\ uploads' = uploads
             /\ kv' = kv /\ disk' = disk]_vars

\* C24 witness: a second deleteFile of f1 in a row returned normally on the
\* remote backend, with nothing to delete in the blob store and another
\* record left in the collection.
C24_Witness ==
    /\ last.op = "deleteFile" /\ last.outcome = "ok"
    /\ last.previous = <<"p1", "c1", "f1">> /\ last.args = last.previous
    /\ last.readBackend = "remote" /\ last.io.failed = 0 /\ last.io.blob = 0
    /\ find(Stored("remote", FILES_KEY, kv, disk), "p1", "c1", "f1") = <<>>
    /\ Stored("remote", FILES_KEY, kv, disk) # <<>>

\* The content stored under a locator saveFile returned.
ContentAt(locator, b, u) == IF locator \in BlobUrls THEN b[locator] ELSE u[locator]

\* C25: two saveFile calls in a row for the same projectId, categoryId and
\* filename that both return, return the same locator - the path itself,
\* never renamed or suffixed - and the content under it is then the content
\* of the second call.
C25_SamePathOverwrites ==
    [][(CallOf({"saveFile"}) /\ last'.outcome = "ok" /\ last'.previous # <<>>
          /\ SubSeq(last'.previous, 1, 3) = SubSeq(last'.args, 1, 3))
          => /\ last'.value = last.value
             /\ last'.value[1] \in
                   {blobUrlOf(blobPath(last'.args[1], last'.args[2], last'.args[3])),
                    getFilePath(last'.args[1], last'.args[2], last'.args[3])}
             /\ ContentAt(last'.value[1], blobs', uploads') = last'.args[4]
             /\ \A l \in (BlobUrls \cup FilePaths) \ {last'.value[1]} :
                   ContentAt(l, blobs', uploads') = ContentAt(l, blobs, uploads)]_vars

\* C25 witness: f1 was saved with one content and at once again with another,
\* on the local disk; the path holds the second content.
C25_Witness ==
    /\ last.op = "saveFile" /\ last.outcome = "ok"
    /\ last.previous = <<"p1", "c1", "f1", "bytes-1">>
    /\ last.args = <<"p1", "c1", "f1", "bytes-2">>
    /\ last.value = <<getFilePath("p1", "c1", "f1")>>
    /\ uploads[getFilePath("p1", "c1", "f1")] = "bytes-2"

\* C26 (as claimed): while the remote collection holds a record with a blob url for
\* a triple, getFileBlobUrl for the triple returns that url, whatever the
\* environment has become since the record was saved (every request the
\* call sends being answered).
C26_Claimed ==
    [][(CallOf({"getFileBlobUrl"}) /\ last'.io.failed = 0)
          => LET saved == find(Stored("remote", FILES_KEY, kv, disk),
                               last'.args[1], last'.args[2], last'.args[3])
             IN HasBlobUrl(saved)
                   => last'.ret = "locator" /\ last'.value = <<saved[1].blobUrl>>]_vars

\* The local document of a collection is on disk and is no JSON text.
Unparsable(file, d) == d[file].state # "absent" /\ ~JSONparses(d[file])

\* C27: a read of a local collection document that cannot be parsed returns
\* the empty collection and does not fail; a mutating call that read such a
\* document and then returns normally leaves a document that parses and
\* holds exactly what the call produced: its record alone.
C27_UnparsableReadsEmptyAndIsRepaired ==
    [][/\ (CallOf({"getAllProjects", "getAllFiles"}) /\ last'.readBackend = "local"
            /\ Unparsable(IF last'.op = "getAllProjects" THEN "projects" ELSE "files", disk))
          => /\ last'.outcome = "ok" /\ last'.ret = "list" /\ last'.value = <<>>
             /\ disk' = disk
       /\ \A c \in Requests :
             (/\ calls[c].pc = "idle" /\ calls'[c].pc = "read"
              /\ calls'[c].rd.backend = "local"
              /\ Unparsable(KeyOf(calls'[c].op), disk))
               => calls'[c].projects = <<>>
       /\ \A c \in Requests :
             (/\ calls[c].pc = "writing" /\ calls'[c].pc = "done"
              /\ calls[c].rd.backend = "local"
              /\ \E d \in Requests : /\ calls[d].pc = "crashed"
                                     /\ calls[d].file = calls[c].file)
               => LET call == calls'[c]
                      document == disk'[call.file]
                  IN /\ call.done.outcome = "ok"
                     /\ JSONparses(document)
                     /\ SameRecords(JSONparse(document), OwnWrite(call))
                     /\ Len(JSONparse(document)) = 1]_vars

\* C27 witness: one createProject died while writing data/projects.json; the
\* next createProject read the truncated document as the empty collection,
\* returned its record, and the document now parses and holds that record.
C27_Witness ==
    \E c, d \in Requests :
       /\ calls[d].pc = "crashed" /\ calls[d].file = "projects"
       /\ calls[c].pc = "done" /\ calls[c].op = "createProject"
       /\ calls[c].rd.backend = "local" /\ calls[c].projects = <<>>
       /\ last = calls[c].done /\ last.outcome = "ok" /\ last.ret = "record"
       /\ JSONparses(disk.projects)
       /\ JSONparse(disk.projects) = <<serialize(last.value[1])>>

\* C27, the read: getAllProjects has just returned the empty list from a
\* document an interrupted write left truncated, and the document is as it was.
C27_WitnessRead ==
    /\ last.op = "getAllProjects" /\ last.outcome = "ok" /\ last.value = <<>>
    /\ last.readBackend = "local"
    /\ disk.projects = Truncated
    /\ \E d \in Requests : calls[d].pc = "crashed" /\ calls[d].file = "projects"

\* C28: on the managed platform, when createProject or updateProject has read
\* the collection and its write request to the remote store fails, the call
\* throws that error, and the collection stored under the key is the one
\* stored before the call; nothing is written locally in its place.
C28_FailedRemoteWriteKeepsStored ==
    [][(CallOf({"createProject", "updateProject"}) /\ ManagedPlatform(env)
           /\ last'.io.remote = 2 /\ last'.io.failed = 1)
          => /\ last'.ret = "error" /\ last'.outcome = "RedisError"
             /\ last'.fellBack = FALSE /\ last'.io.lwrite = 0
             /\ redisGet(kv', PROJECTS_KEY) = redisGet(kv, PROJECTS_KEY)
             /\ kv'.projects = kv.projects
             /\ disk' = disk]_vars

\* C28 witness: on the managed platform an updateProject of a stored record
\* read the collection, its write request failed, the call threw, and the
\* record under the key has its old name.
C28_Witness ==
    /\ ManagedPlatform(env)
    /\ last.op = "updateProject" /\ last.ret = "error" /\ last.outcome = "RedisError"
    /\ last.io.remote = 2 /\ last.io.failed = 1
    /\ Len(redisGet(kv, PROJECTS_KEY)) = 1
    /\ redisGet(kv, PROJECTS_KEY)[1].name = "Thesis"
    /\ disk.projects.state = "absent"

\* The read of the project collection made by the call of this step got the
\* stored collection: from the remote store, or from a local document the
\* process could read (created empty when there was none).
CollectionRead ==
    \/ last'.readBackend = "remote"
    \/ last'.readBackend = "local" /\ disk.projects.state \in {"absent", "json"}

\* C29 (as claimed): updateProject returns null only when it has read the collection
\* and no record of it has the id; getAllProjects returns a list only when it
\* has read the collection: a read that failed in storage is thrown, never
\* turned into null or the empty list.
C29_Claimed ==
    [][/\ \A id \in Ids :
             (updateProject(id, [name |-> "Thesis v2"]) /\ last'.ret = "null")
                => CollectionRead /\ findIndex(ProjectsBefore, id) = 0
       /\ (CallOf({"getAllProjects"}) /\ last'.ret = "list")
          => CollectionRead]_vars

\* The request of the response in last.
RequestCookie(call) == call.args[2]
RequestCookiesThrows(call) == call.args[3]
RequestBody(call) == call.args[4]

\* C30: a POST whose admin check is false (no admin_session cookie, another
\* value than 'authenticated', or a cookie store that cannot be read) is
\* answered 403 whatever its body, and the call reads and writes neither
\* the remote nor the local project collection.
C30_NonAdminPostForbidden ==
    [][(last'.op = "POST"
          /\ ~isAdminServer(RequestCookie(last'), RequestCookiesThrows(last')))
          => /\ last'.ret = "403"
             /\ last'.io = NoIO
             /\ last'.readBackend = "none" /\ last'.writeBackend = "none"
             /\ kv' = kv /\ disk' = disk /\ now' = now]_vars

\* C30 witness: a POST with no admin cookie and a body that is not JSON has
\* been answered 403 while the collection holds a record an admin created.
C30_Witness ==
    /\ last.op = "POST" /\ last.ret = "403"
    /\ RequestCookie(last) = Undefined /\ ~RequestCookiesThrows(last)
    /\ RequestBody(last) = NoBody
    /\ \/ Len(Stored("local", PROJECTS_KEY, kv, disk)) = 1
       \/ Len(Stored("remote", PROJECTS_KEY, kv, disk)) = 1

\* C30, a body without a name from a caller with a cookie of another value.
C30_WitnessNoName ==
    /\ last.op = "POST" /\ last.ret = "403"
    /\ RequestCookie(last) = "true"
    /\ RequestBody(last) = Body("undefined", Undefined, Undefined)

\* The texts of the model that are empty or whitespace only, and those with
\* whitespace at an end.
Blank == {"", " "}
Padded == {" ", " Thesis "}

\* The name of a body is missing, not a string, or empty after trimming.
NameRejected(body) == body.nameType # "string" \/ body.name \in Blank

\* Every project in the local document and under the remote key has a name
\* that is non-empty and has no whitespace at its ends.
NamesTrimmed(k, d) ==
    \A backend \in {"local", "remote"} :
       LET projects == Stored(backend, PROJECTS_KEY, k, d)
       IN \A i \in 1..Len(projects) :
             projects[i].name \notin Blank \cup Padded

C31_WitnessStored ==
    /\ last.op = "POST" /\ last.ret = "201"
    /\ RequestBody(last).name = " Thesis "
    /\ last.value[1].name = "Thesis"

\* C32 (as claimed): a collection read or a collection write sends at most one
\* request to the remote store and calls the local-file function at most
\* once; a saveFile sends at most one request to the blob store.
C32_Claimed ==
    [][/\ CallOf({"getAllProjects", "getAllFiles", "saveProjects", "saveFiles"})
            => last'.io.remote <= 1 /\ last'.io.local <= 1
       /\ CallOf({"saveFile"}) => last'.io.blob <= 1]_vars

\* C33: every call that has started ends, with a result or with an error.
C33_StartedCallsEnd ==
    \A c \in Requests : (calls[c].pc # "idle") ~> (calls[c].pc = "done")

\* C33 witness: two calls have ended, one with a record after a write that
\* fell back to the local file, the other with null.
C33_Witness ==
    \E c, d \in Requests :
       /\ calls[c].pc = "done" /\ calls[c].done.ret = "record" /\ calls[c].done.fellBack
       /\ calls[d].pc = "done" /\ calls[d].done.ret = "null"

\* The store that served a collection call.
Served(call) ==
    IF call.op \in {"saveProjects", "saveFiles"} THEN call.writeBackend
    ELSE call.readBackend

\* What the projects module does for the same operation in the same state,
\* its remote request answered.
ProjectsCounterpart(op) ==
    IF op = "getAllFiles" THEN getAllProjectsFromKV(env, TRUE, kv, disk)
    ELSE saveProjectsToKV(<<>>, env, TRUE, kv, disk, NoIO)

\* C34 (as claimed): in every environment, a read or write of the files collection
\* with no failed request is served by the kind of store (remote key-value
\* or local file) that serves the same operation on the projects collection.
C34_Claimed ==
    [][(CallOf({"getAllFiles", "saveFiles"}) /\ last'.outcome = "ok"
          /\ last'.io.failed = 0 /\ ProjectsCounterpart(last'.op).outcome = "ok")
          => Served(last') = ProjectsCounterpart(last'.op).backend]_vars

\* The positions of the records of a collection that are not of the triple.
Others(files, projectId, categoryId, filename) ==
    {i \in 1..Len(files) : ~SameFile(files[i], projectId, categoryId, filename)}

\* C35: the collection deleteFile writes holds no record of the given triple
\* and holds every other record of the collection it read, each once, as it
\* was and in the same relative order.
C35_DeleteFrame ==
    [][(CallOf({"deleteFile"}) /\ last'.outcome = "ok")
          => LET projectId == last'.args[1]
                 categoryId == last'.args[2]
                 filename == last'.args[3]
                 kept == Others(FilesBefore, projectId, categoryId, filename)
             IN /\ Others(FilesWritten, projectId, categoryId, filename)
                      = 1..Len(FilesWritten)
                /\ Len(FilesWritten) = Cardinality(kept)
                /\ \A i \in kept :
                      FilesWritten[Cardinality({j \in kept : j <= i})] = FilesBefore[i]]_vars

\* C35 witness: deleteFile of f1 has left a collection holding the record
\* of f2 alone, the record of f1 having been stored first.
C35_Witness ==
    /\ last.op = "deleteFile" /\ last.outcome = "ok"
    /\ last.args = <<"p1", "c1", "f1">>
    /\ last.readBackend = last.writeBackend
    /\ LET files == Stored(last.writeBackend, FILES_KEY, kv, disk)
       IN Len(files) = 1 /\ files[1].filename = "f2"

\* The project collection the call of this step wrote, after the step.
ProjectsWritten == Stored(last'.writeBackend, PROJECTS_KEY, kv', disk')

\* C36: the collection a createProject that returns a record has written is
\* the collection it read followed by the record it returns (as JSON), and
\* the collection a saveFileMetadata has written is the collection it read
\* followed by the record it was given: one record more, at the end, the
\* others as they were.
C36_AppendsOne ==
    [][/\ (CallOf({"createProject"}) /\ last'.ret = "record")
            => /\ ProjectsWritten = Append(ProjectsBefore, serialize(last'.value[1]))
               /\ Len(ProjectsWritten) = Len(ProjectsBefore) + 1
               /\ SubSeq(ProjectsWritten, 1, Len(ProjectsBefore)) = ProjectsBefore
       /\ \A m \in FileRecords :
             saveFileMetadata(m)
               => /\ FilesWritten = Append(FilesBefore, serialize(m))
                  /\ Len(FilesWritten) = Len(FilesBefore) + 1
                  /\ SubSeq(FilesWritten, 1, Len(FilesBefore)) = FilesBefore]_vars

\* C36 witness: createProject has returned a record that is the second and
\* last of the stored collection.
C36_Witness ==
    /\ last.op = "createProject" /\ last.ret = "record"
    /\ LET projects == Stored(last.writeBackend, PROJECTS_KEY, kv, disk)
       IN /\ Len(projects) = 2
          /\ projects[2] = serialize(last.value[1])
          /\ projects[1] # projects[2]

\* C36, the files collection: saveFileMetadata has left a collection of two
\* records, the second without a blob url.
C36_WitnessFiles ==
    /\ last.op = "saveFileMetadata" /\ last.outcome = "ok"
    /\ LET files == Stored(last.writeBackend, FILES_KEY, kv, disk)
       IN /\ Len(files) = 2
          /\ files[1] = serialize(Uploaded)
          /\ files[2].filename = "f2"

\* The local document of the collection a read is for.
DocumentOf(op) == IF op = "getAllProjects" THEN "projects" ELSE "files"

\* C37: a read served by the local file creates the document of its
\* collection, holding the empty array, when there is none, and leaves a
\* document that exists exactly as it is; the document of the other
\* collection is not touched either way.
C37_ReadCreatesOnce ==
    [][(CallOf({"getAllProjects", "getAllFiles"}) /\ last'.io.local = 1)
          => LET file == DocumentOf(last'.op)
                 other == DocumentOf(IF last'.op = "getAllProjects"
                                     THEN "getAllFiles" ELSE "getAllProjects")
             IN /\ disk[file].state = "absent"
                     => /\ disk'[file] = JSONstringify(<<>>)
                        /\ JSONparse(disk'[file]) = <<>>
                        /\ last'.value = <<>>
                /\ disk[file].state # "absent" => disk'[file] = disk[file]
                /\ disk'[other] = disk[other]
                /\ disk'.dir]_vars

\* C37 witness: the first getAllProjects on an empty data directory has
\* created the directory and the document, which holds the empty array.
C37_Witness ==
    /\ last.op = "getAllProjects" /\ last.outcome = "ok"
    /\ last.io.local = 1 /\ last.io.lwrite = 2
    /\ disk.projects = JSONstringify(<<>>)
    /\ last.value = <<>>

\* C37, the existing document: getAllProjects has read two records from a
\* document without writing anything.
C37_WitnessExisting ==
    /\ last.op = "getAllProjects" /\ last.outcome = "ok"
    /\ last.io.local = 1 /\ last.io.lwrite = 0
    /\ Len(last.value) = 2
    /\ JSONparse(disk.projects) = last.value

\* C38: isAdminServer never raises and changes nothing; it returns true
\* exactly when the cookie store could be read and the request carried an
\* admin_session cookie with the value 'authenticated', and false when the
\* cookie store could not be read, whatever the cookie.
C38_AdminOnlyWithCookie ==
    [][last'.op = "isAdminServer"
          => /\ last'.outcome = "ok" /\ last'.ret \in {"true", "false"}
             /\ last'.ret = "true"
                   <=> (~last'.args[2] /\ last'.args[1] = "authenticated")
             /\ last'.args[2] => last'.ret = "false"
             /\ cookieStore' = cookieStore /\ kv' = kv /\ disk' = disk]_vars

\* C38 witness: isAdminServer has returned false for a request carrying an
\* admin_session cookie with another value.
C38_Witness ==
    /\ last.op = "isAdminServer" /\ last.ret = "false" /\ last.outcome = "ok"
    /\ last.args = <<"true", FALSE>>

\* C38, the cookie store that cannot be read: isAdminServer has returned
\* false for a request of a client holding the 'authenticated' cookie.
C38_WitnessThrows ==
    /\ last.op = "isAdminServer" /\ last.ret = "false" /\ last.outcome = "ok"
    /\ last.args = <<"authenticated", TRUE>>

\* C39 (as claimed): on a cookie store changed by setAdminSession and
\* clearAdminSession only, isAdminServer returns true exactly when the last
\* of those calls to return was setAdminSession.
C39_Claimed ==
    [][(last'.op = "isAdminServer" /\ now' = now /\ ~last'.args[2]
          /\ last'.previous # <<"EditCookie">>)
          => (last'.ret = "true" <=> last'.previous = <<"setAdminSession">>)]_vars

\* C39 (amended): on a cookie store changed by setAdminSession and
\* clearAdminSession only, isAdminServer returns true exactly when the last
\* of those calls to return was setAdminSession and the maxAge of the cookie
\* it set has not passed since.
C39_SessionUntilExpiry ==
    [][(last'.op = "isAdminServer" /\ now' = now /\ ~last'.args[2]
          /\ last'.previous # <<"EditCookie">>)
          => (last'.ret = "true"
                <=> (last'.previous = <<"setAdminSession">> /\ now < cookieStore.expires))]_vars

\* C39 witness: isAdminServer has returned true after a setAdminSession made
\* at the last clock reading.
C39_Witness ==
    /\ last.op = "isAdminServer" /\ last.ret = "true"
    /\ last.previous = <<"setAdminSession">>
    /\ cookieStore.expires = MaxClock + MaxAge

\* C39, after clearAdminSession: isAdminServer has returned false.
C39_WitnessCleared ==
    /\ last.op = "isAdminServer" /\ last.ret = "false" /\ ~last.args[2]
    /\ last.previous = <<"clearAdminSession">>

====
